---- MODULE Spec2Model ----
(***************************************************************************)
(* A model of the Claudette API client: the path sandbox and the text      *)
(* editor tool (src/tools/text_editor.py), the tool loop and the SSE       *)
(* decoder (src/api/api.py) and the streaming response handler             *)
(* (src/api/handler.py).                                                   *)
(*                                                                         *)
(* A Python str is a sequence of one-character strings, so that            *)
(* os.path.normpath, os.path.commonpath, str.count and str.replace are     *)
(* computed character by character as posixpath and str compute them.      *)
(***************************************************************************)
EXTENDS Integers, Sequences, FiniteSets, TLC

VARIABLES
    \* ---- resolve_path(path, allowed_roots, context_files, window) ----
    path,            \* the path argument (a str)
    allowed_roots,   \* list of allowed roots (get_allowed_roots)
    context_files,   \* list of absolute_path values of the context files
    open_views,      \* list of view.file_name() of window.views()
    files,           \* the filesystem's regular files: absolute path -> content
    resolved,        \* what resolve_path returned, NoCall before the call
    \* ---- one call of an executor of the text editor tool ----
    input_params,    \* the tool input: command, path, old_str, new_str, ...
    io,              \* how the filesystem answers open/read/write during the call
    tool_result,     \* what the executor returned or raised, NoResult before the call
    \* ---- ClaudetteClaudeAPI.run_with_text_editor_loop ----
    loop_pc,          \* "idle", "start", "requesting" (the while loop), "done" (returned)
    config,           \* api_key set, text_editor_tool enabled, chat view attached
    messages,         \* the messages argument
    current_messages, \* the history the next request carries
    requests,         \* the number of requests sent
    blocks_seen,      \* the number of content blocks received so far
    sink,             \* the chunk_callback calls scheduled with set_timeout, in order
    session_stats,    \* claudette_session_stats of the chat view
    stats_writes,     \* the number of settings().set('claudette_session_stats', ...)
    last_response,    \* the response the last iteration handled
    request_messages, \* the messages the last request carried
    \* ---- ClaudetteStreamingResponseHandler and stream_response ----
    handler,          \* the fields of the handler of the turn
    calls,            \* the number of append_chunk calls the handler has had
    stream,           \* the locals of stream_response and the frames it has read
    \* ---- ClaudetteAskQuestionCommand ----
    questions,        \* the questions asked in the chat view and the worker of each
    \* ---- ClaudetteClaudeAPI.calculate_cost ----
    cost_call,        \* the arguments of one call and what it returned
    \* ---- the credentials: utils.py and the request headers of api.py ----
    auth,             \* the auth_mode and api_key settings, the OAuth token at hand
    api,              \* the ClaudetteClaudeAPI object: whether it is built, its api_key
    outbound,         \* the requests sent, each with its headers
    \* ---- the turns of one chat view, each in its own worker thread ----
    turns             \* per turn: its position, its usage and its copy of the stats

pathVars == <<path, allowed_roots, context_files, open_views, files, resolved>>
editVars == <<input_params, io, tool_result>>
loopVars == <<loop_pc, config, messages, current_messages, requests, blocks_seen, sink,
              session_stats, stats_writes, last_response, request_messages>>

streamVars == <<handler, calls, stream, questions>>

callVars == <<cost_call, auth, api, outbound, turns>>

vars == <<pathVars, editVars, loopVars, streamVars, callVars>>

(***************************************************************************)
(* Python str primitives                                                   *)
(***************************************************************************)
SLASH == "/"
DOT == "."

\* s.startswith(p)
StartsWith(s, p) ==
    /\ Len(p) <= Len(s)
    /\ SubSeq(s, 1, Len(p)) = p

\* s.endswith(p)
EndsWith(s, p) ==
    /\ Len(p) <= Len(s)
    /\ SubSeq(s, Len(s) - Len(p) + 1, Len(s)) = p

\* sub in s
Contains(s, sub) ==
    \E i \in 1..(Len(s) - Len(sub) + 1) : SubSeq(s, i, i + Len(sub) - 1) = sub

\* s.rfind('/') + 1: the position just after the last slash, 0 without one
RFindSlash(s) ==
    IF \E i \in 1..Len(s) : s[i] = SLASH
    THEN CHOOSE i \in 1..Len(s) : s[i] = SLASH /\ \A j \in (i+1)..Len(s) : s[j] # SLASH
    ELSE 0

RECURSIVE SplitFrom(_, _, _)
\* s.split('/') continued at position i with the current piece cur
SplitFrom(s, i, cur) ==
    IF i > Len(s) THEN <<cur>>
    ELSE IF s[i] = SLASH THEN <<cur>> \o SplitFrom(s, i + 1, <<>>)
    ELSE SplitFrom(s, i + 1, Append(cur, s[i]))

\* s.split('/')
Split(s) == SplitFrom(s, 1, <<>>)

RECURSIVE Join(_)
\* '/'.join(comps)
Join(comps) ==
    IF Len(comps) = 0 THEN <<>>
    ELSE IF Len(comps) = 1 THEN comps[1]
    ELSE comps[1] \o <<SLASH>> \o Join(Tail(comps))

RECURSIVE RStripSlash(_)
\* s.rstrip('/')
RStripSlash(s) ==
    IF Len(s) > 0 /\ s[Len(s)] = SLASH THEN RStripSlash(SubSeq(s, 1, Len(s) - 1)) ELSE s

AllSlashes(s) == \A i \in 1..Len(s) : s[i] = SLASH

(***************************************************************************)
(* posixpath                                                               *)
(***************************************************************************)
DOTDOT == <<DOT, DOT>>
CURDIR == <<DOT>>

\* os.path.isabs
isabs(p) == StartsWith(p, <<SLASH>>)

\* os.path.basename
basename(p) == SubSeq(p, RFindSlash(p) + 1, Len(p))

\* os.path.dirname
dirname(p) ==
    LET head == SubSeq(p, 1, RFindSlash(p))
    IN  IF Len(head) > 0 /\ ~AllSlashes(head) THEN RStripSlash(head) ELSE head

\* os.path.join(a, b)
join(a, b) ==
    IF isabs(b) THEN b
    ELSE IF Len(a) = 0 \/ EndsWith(a, <<SLASH>>) THEN a \o b
    ELSE a \o <<SLASH>> \o b

\* the number of leading slashes normpath keeps: 2 for exactly two, else 0 or 1
InitialSlashes(p) ==
    IF ~StartsWith(p, <<SLASH>>) THEN 0
    ELSE IF StartsWith(p, <<SLASH, SLASH>>) /\ ~StartsWith(p, <<SLASH, SLASH, SLASH>>) THEN 2
    ELSE 1

RECURSIVE NormComps(_, _, _)
\* the loop of normpath over the components comps, new_comps collected so far
NormComps(comps, new_comps, initial_slashes) ==
    IF Len(comps) = 0 THEN new_comps
    ELSE LET comp == Head(comps)
             rest == Tail(comps)
         IN  IF comp = <<>> \/ comp = CURDIR
             THEN NormComps(rest, new_comps, initial_slashes)
             ELSE IF \/ comp # DOTDOT
                     \/ (initial_slashes = 0 /\ Len(new_comps) = 0)
                     \/ (Len(new_comps) > 0 /\ new_comps[Len(new_comps)] = DOTDOT)
             THEN NormComps(rest, Append(new_comps, comp), initial_slashes)
             ELSE IF Len(new_comps) > 0
             THEN NormComps(rest, SubSeq(new_comps, 1, Len(new_comps) - 1), initial_slashes)
             ELSE NormComps(rest, new_comps, initial_slashes)

\* os.path.normpath
normpath(p) ==
    IF Len(p) = 0 THEN CURDIR
    ELSE LET n == InitialSlashes(p)
             body == Join(NormComps(Split(p), <<>>, n))
             out == (IF n = 2 THEN <<SLASH, SLASH>> ELSE IF n = 1 THEN <<SLASH>> ELSE <<>>) \o body
         IN  IF Len(out) = 0 THEN CURDIR ELSE out

\* the components commonpath compares: empty and '.' components dropped
PathComps(p) == SelectSeq(Split(p), LAMBDA c : c # <<>> /\ c # CURDIR)

\* the longest common prefix of two component lists
RECURSIVE CommonPrefix(_, _)
CommonPrefix(a, b) ==
    IF Len(a) = 0 \/ Len(b) = 0 \/ Head(a) # Head(b) THEN <<>>
    ELSE <<Head(a)>> \o CommonPrefix(Tail(a), Tail(b))

ValueError == <<"ValueError">>

\* os.path.commonpath([a, b]); ValueError when absolute and relative are mixed
commonpath(a, b) ==
    IF isabs(a) # isabs(b) THEN ValueError
    ELSE (IF isabs(a) THEN <<SLASH>> ELSE <<>>) \o Join(CommonPrefix(PathComps(a), PathComps(b)))

(***************************************************************************)
(* Python values of a tool input: a str is PyStr(s), anything else carries *)
(* its type name.                                                          *)
(***************************************************************************)
PyStr(s) == [t |-> "str", v |-> s]
PyNone == [t |-> "NoneType", v |-> <<>>]
PyInt(n) == [t |-> "int", v |-> <<n>>]
PyAbsent == [t |-> "absent", v |-> <<>>]
PyDict(fields) == [t |-> "dict", v |-> fields]
IsStr(x) == x.t = "str"

\* d.get(key, default) for a dict d
Get(d, key, default) == IF d[key] = PyAbsent THEN default ELSE d[key]

\* the fields a text editor tool input can carry
ToolInput(command, p, view_range, old_str, new_str, file_text, insert_line, insert_text) ==
    [command |-> command, path |-> p, view_range |-> view_range, old_str |-> old_str,
     new_str |-> new_str, file_text |-> file_text, insert_line |-> insert_line,
     insert_text |-> insert_text]

NoInput ==
    ToolInput(PyAbsent, PyAbsent, PyAbsent, PyAbsent, PyAbsent, PyAbsent, PyAbsent, PyAbsent)

SPACE == " "

RECURSIVE LStrip(_)
LStrip(s) == IF Len(s) > 0 /\ Head(s) = SPACE THEN LStrip(Tail(s)) ELSE s

RECURSIVE RStrip(_)
RStrip(s) == IF Len(s) > 0 /\ s[Len(s)] = SPACE THEN RStrip(SubSeq(s, 1, Len(s) - 1)) ELSE s

\* s.strip()
Strip(s) == RStrip(LStrip(s))

(***************************************************************************)
(* src/tools/text_editor.py: the path sandbox                              *)
(***************************************************************************)
\* the entry of a directory in the filesystem map (a regular file maps to its content)
DIR == <<"<dir>">>

\* os.path.exists
exists(fs, p) == p = <<SLASH>> \/ p \in DOMAIN fs

\* os.path.isfile
isfile(fs, p) == p \in DOMAIN fs /\ fs[p] # DIR

\* os.path.isdir
isdir(fs, p) == p = <<SLASH>> \/ (p \in DOMAIN fs /\ fs[p] = DIR)

RootOk(p) == [ok |-> TRUE, path |-> p, err |-> ""]
RootErr(msg) == [ok |-> FALSE, path |-> <<>>, err |-> msg]
NoCall == RootErr("NoCall")

ErrInvalidPath == "Error: Invalid path."
ErrTraversal == "Error: Path traversal is not allowed."
ErrOutside == "Error: Path is outside allowed project roots."

\* a plausible slip: containment by string prefix
RECURSIVE ensure_under_root_strprefix(_, _)
ensure_under_root_strprefix(file_path, roots) ==
    IF Len(roots) = 0 THEN FALSE
    ELSE IF StartsWith(file_path, Head(roots)) THEN TRUE
    ELSE ensure_under_root_strprefix(file_path, Tail(roots))

RECURSIVE ensure_under_root(_, _)
\* True if file_path is under one of the roots; a ValueError ends the search
ensure_under_root(file_path, roots) ==
    IF Len(roots) = 0 THEN FALSE
    ELSE LET c == commonpath(Head(roots), file_path)
         IN  IF c = ValueError THEN FALSE
             ELSE IF c = Head(roots) THEN TRUE
             ELSE ensure_under_root(file_path, Tail(roots))

RECURSIVE find_in_context_files(_, _, _)
\* the absolute_path of the first context file with that basename, <<>> for None
find_in_context_files(p, ctx, fs) ==
    IF Len(ctx) = 0 \/ Len(p) = 0 THEN <<>>
    ELSE LET e == Head(ctx)
         IN  IF /\ basename(e.rel_path) = basename(p)
                /\ Len(e.absolute_path) > 0
                /\ isfile(fs, e.absolute_path)
             THEN e.absolute_path
             ELSE find_in_context_files(p, Tail(ctx), fs)

RECURSIVE find_in_open_views(_, _)
\* the file_name() of the first open view with that basename, <<>> for None
find_in_open_views(p, views) ==
    IF Len(views) = 0 \/ Len(p) = 0 THEN <<>>
    ELSE IF Len(Head(views)) > 0 /\ basename(Head(views)) = basename(p) THEN Head(views)
    ELSE find_in_open_views(p, Tail(views))

RECURSIVE FirstRootOfAbs(_, _)
\* the absolute branch: normalized itself if some root contains it
FirstRootOfAbs(normalized, roots) ==
    IF Len(roots) = 0 THEN RootErr(ErrOutside)
    ELSE IF commonpath(Head(roots), normalized) = Head(roots) THEN RootOk(normalized)
    ELSE FirstRootOfAbs(normalized, Tail(roots))

RECURSIVE FirstRootOfRel(_, _)
\* the relative branch: the first root whose join with normalized stays under it
FirstRootOfRel(normalized, roots) ==
    IF Len(roots) = 0 THEN RootErr(ErrOutside)
    ELSE LET candidate == normpath(join(Head(roots), normalized))
         IN  IF commonpath(Head(roots), candidate) = Head(roots) THEN RootOk(candidate)
             ELSE FirstRootOfRel(normalized, Tail(roots))

\* the hints are consulted for every path, with or without a directory component
ResolveNormalized_hints_for_any_path(normalized, roots, ctx, views, fs) ==
    LET inCtx == IF Len(ctx) > 0 THEN find_in_context_files(normalized, ctx, fs) ELSE <<>>
        inViews == find_in_open_views(normalized, views)
    IN  IF Len(inCtx) > 0 /\ ensure_under_root(inCtx, roots) THEN RootOk(inCtx)
        ELSE IF Len(inViews) > 0 /\ ensure_under_root(inViews, roots) THEN RootOk(inViews)
        ELSE IF isabs(normalized) THEN FirstRootOfAbs(normalized, roots)
        ELSE FirstRootOfRel(normalized, roots)

\* the rules after the traversal check, for the normalized path
ResolveNormalized(normalized, roots, ctx, views, fs) ==
    LET bare == dirname(normalized) = <<>> \/ dirname(normalized) = CURDIR
        inCtx == IF bare /\ Len(ctx) > 0 THEN find_in_context_files(normalized, ctx, fs) ELSE <<>>
        inViews == IF bare THEN find_in_open_views(normalized, views) ELSE <<>>
    IN  IF Len(inCtx) > 0 /\ ensure_under_root(inCtx, roots) THEN RootOk(inCtx)
        ELSE IF Len(inViews) > 0 /\ ensure_under_root(inViews, roots) THEN RootOk(inViews)
        ELSE IF isabs(normalized) THEN FirstRootOfAbs(normalized, roots)
        ELSE FirstRootOfRel(normalized, roots)

\* the traversal test on the normalized path
IsTraversal(normalized) ==
    \/ StartsWith(normalized, DOTDOT)
    \/ Contains(normalized, <<SLASH>> \o DOTDOT)
    \/ Contains(normalized, <<"\\">> \o DOTDOT)

\* resolve_path(path, allowed_roots, context_files, window)
resolve_path(p, roots, ctx, views, fs) ==
    IF ~IsStr(p) \/ Len(p.v) = 0 THEN RootErr(ErrInvalidPath)
    ELSE LET stripped == Strip(p.v)
         IN  IF Len(stripped) = 0 THEN RootErr(ErrInvalidPath)
             ELSE LET normalized == normpath(stripped)
                  IN  IF IsTraversal(normalized) THEN RootErr(ErrTraversal)
                      ELSE ResolveNormalized(normalized, roots, ctx, views, fs)

(***************************************************************************)
(* src/tools/text_editor.py: execute_str_replace                           *)
(***************************************************************************)
RECURSIVE CountFrom(_, _, _)
\* the non-overlapping matches of sub in s from position i on, found left to right
CountFrom(s, sub, i) ==
    IF i + Len(sub) - 1 > Len(s) THEN 0
    ELSE IF SubSeq(s, i, i + Len(sub) - 1) = sub THEN 1 + CountFrom(s, sub, i + Len(sub))
    ELSE CountFrom(s, sub, i + 1)

\* s.count(sub): non-overlapping occurrences; len(s) + 1 for the empty sub
StrCount(s, sub) == IF Len(sub) = 0 THEN Len(s) + 1 ELSE CountFrom(s, sub, 1)

\* s.find(sub) + 1: the first position where sub matches, 0 without a match
StrFind(s, sub) ==
    IF Contains(s, sub)
    THEN CHOOSE i \in 1..(Len(s) - Len(sub) + 1) :
            /\ SubSeq(s, i, i + Len(sub) - 1) = sub
            /\ \A j \in 1..(i - 1) : SubSeq(s, j, j + Len(sub) - 1) # sub
    ELSE 0

\* s.replace(old, new, 1)
StrReplaceFirst(s, old, new) ==
    LET i == StrFind(s, old)
    IN  IF i = 0 THEN s
        ELSE SubSeq(s, 1, i - 1) \o new \o SubSeq(s, i + Len(old), Len(s))

NL == "\n"
CR == "\r"

RECURSIVE ReadText(_)
\* f.read() of a file opened with open(resolved, 'r'): the newline translation of
\* text mode turns '\r\n' and a lone '\r' into '\n'; open(resolved, 'w') on a POSIX
\* system writes '\n' as it is
ReadText(data) ==
    IF Len(data) = 0 THEN <<>>
    ELSE IF Head(data) = CR
    THEN <<NL>> \o ReadText(IF Len(data) > 1 /\ data[2] = NL
                            THEN SubSeq(data, 3, Len(data)) ELSE Tail(data))
    ELSE <<Head(data)>> \o ReadText(Tail(data))

\* the (content, is_error) pair an executor returns, with the filesystem it leaves
Returned(msg, n, is_error, fs) ==
    [raised |-> "", content |-> msg, text |-> <<>>, n |-> n, is_error |-> is_error,
     files |-> fs]

\* the pair (content, False) of execute_view, whose content is the text shown
Viewed(text, fs) ==
    [raised |-> "", content |-> "view", text |-> text, n |-> 0, is_error |-> FALSE,
     files |-> fs]

\* an exception leaving the executor, with the filesystem it leaves
Raised(exc, fs) ==
    [raised |-> exc, content |-> "", text |-> <<>>, n |-> 0, is_error |-> FALSE,
     files |-> fs]

NoResult ==
    [raised |-> "", content |-> "NoResult", text |-> <<>>, n |-> 0, is_error |-> FALSE,
     files |-> <<>>]

MsgFileNotFound == "Error: File not found"
MsgCouldNotRead == "Error: Could not read file"
MsgCannotWrite == "Error: Permission denied. Cannot write to file."

\* execute_str_replace(path, old_str, new_str, allowed_roots, context_files, window)
execute_str_replace(p, old_str, new_str, roots, ctx, views, fs, env) ==
    LET r == resolve_path(p, roots, ctx, views, fs)
    IN  IF ~r.ok THEN Returned(r.err, 0, TRUE, fs)
        ELSE IF ~isfile(fs, r.path) THEN Returned(MsgFileNotFound, 0, TRUE, fs)
        ELSE IF ~ensure_under_root(r.path, roots) THEN Returned(ErrOutside, 0, TRUE, fs)
        ELSE IF env = "read_oserror" THEN Returned(MsgCouldNotRead, 0, TRUE, fs)
        ELSE IF env = "decode_error" THEN Raised("UnicodeDecodeError", fs)
        ELSE IF ~IsStr(old_str) THEN Raised("TypeError", fs)
        ELSE LET content == ReadText(fs[r.path])
                 count == StrCount(content, old_str.v)
             IN  IF count = 0
                 THEN Returned("Error: No match found for replacement. "
                                  \o "Please check your text and try again.", 0, TRUE, fs)
                 ELSE IF count > 1
                 THEN Returned("Error: Found {0} matches for replacement text. "
                                  \o "Please provide more context to make a unique match.",
                               count, TRUE, fs)
                 ELSE IF ~IsStr(new_str) THEN Raised("TypeError", fs)
                 ELSE IF env = "write_oserror" THEN Returned(MsgCannotWrite, 0, TRUE, fs)
                 ELSE Returned("Successfully replaced text at exactly one location.", 0, FALSE,
                               [fs EXCEPT ![r.path] =
                                    StrReplaceFirst(content, old_str.v, new_str.v)])

(***************************************************************************)
(* src/tools/text_editor.py: execute_view, execute_create, execute_insert  *)
(***************************************************************************)
PyList(elems) == [t |-> "list", v |-> elems]
IsInt(x) == x.t = "int"

Digits == <<"0", "1", "2", "3", "4", "5", "6", "7", "8", "9">>

RECURSIVE IntToStr(_)
\* "{0}".format(i) for i >= 0
IntToStr(i) == IF i < 10 THEN <<Digits[i + 1]>> ELSE IntToStr(i \div 10) \o <<Digits[(i % 10) + 1]>>

RECURSIVE SplitLinesFrom(_, _, _)
\* str.splitlines(): the lines without their terminators, no empty last line
SplitLinesFrom(s, i, cur) ==
    IF i > Len(s) THEN (IF Len(cur) = 0 THEN <<>> ELSE <<cur>>)
    ELSE IF s[i] = NL THEN <<cur>> \o SplitLinesFrom(s, i + 1, <<>>)
    ELSE SplitLinesFrom(s, i + 1, Append(cur, s[i]))

splitlines(s) == SplitLinesFrom(s, 1, <<>>)

RECURSIVE ReadLinesFrom(_, _, _)
\* f.readlines(): the lines with their terminators
ReadLinesFrom(s, i, cur) ==
    IF i > Len(s) THEN (IF Len(cur) = 0 THEN <<>> ELSE <<cur>>)
    ELSE IF s[i] = NL THEN <<Append(cur, NL)>> \o ReadLinesFrom(s, i + 1, <<>>)
    ELSE ReadLinesFrom(s, i + 1, Append(cur, s[i]))

readlines(s) == ReadLinesFrom(s, 1, <<>>)

RECURSIVE Concat(_)
\* "".join(parts)
Concat(parts) == IF Len(parts) = 0 THEN <<>> ELSE Head(parts) \o Concat(Tail(parts))

RECURSIVE JoinNL(_)
\* "\n".join(parts)
JoinNL(parts) ==
    IF Len(parts) = 0 THEN <<>>
    ELSE IF Len(parts) = 1 THEN parts[1]
    ELSE parts[1] \o <<NL>> \o JoinNL(Tail(parts))

\* "{0}: {1}".format(i, line) for the lines numbered from first on
NumberedFrom(lines, first) ==
    [k \in 1..Len(lines) |-> IntToStr(first + k - 1) \o <<":", SPACE>> \o lines[k]]

\* the order of str comparison on the characters of the model
CharRank(c) ==
    CHOOSE k \in 1..8 : <<NL, SPACE, DOT, SLASH, "a", "b", "c", "x">>[k] = c

RECURSIVE StrLess(_, _)
\* a < b for two str
StrLess(a, b) ==
    IF Len(b) = 0 THEN FALSE
    ELSE IF Len(a) = 0 THEN TRUE
    ELSE IF Head(a) = Head(b) THEN StrLess(Tail(a), Tail(b))
    ELSE CharRank(Head(a)) < CharRank(Head(b))

RECURSIVE SortedSeq(_)
\* sorted(names) for a set of names
SortedSeq(names) ==
    IF names = {} THEN <<>>
    ELSE LET least == CHOOSE x \in names : \A y \in names \ {x} : StrLess(x, y)
         IN  <<least>> \o SortedSeq(names \ {least})

\* os.listdir(d)
listdir(fs, d) ==
    {basename(q) : q \in {q \in DOMAIN fs : q # d /\ dirname(q) = d}}

TruncatedMark == <<NL, ".", ".", ".", SPACE, "(", "t", "r", "u", "n", "c", "a", "t", "e", "d", ")">>

\* content[:max_characters] + marker when the budget is positive and exceeded
Truncate(text, max_characters) ==
    IF max_characters > 0 /\ Len(text) > max_characters
    THEN SubSeq(text, 1, max_characters) \o TruncatedMark
    ELSE text

\* the view_range is used: a list of at least two elements
RangeGiven(view_range) == view_range.t = "list" /\ Len(view_range.v) >= 2

DigitValue(c) == CHOOSE k \in 0..9 : Digits[k + 1] = c

IsNumeral(s) ==
    /\ Len(s) > 0
    /\ \A i \in 1..Len(s) : \E k \in 1..10 : Digits[k] = s[i]

RECURSIVE NumeralValue(_)
NumeralValue(s) ==
    IF Len(s) = 0 THEN 0
    ELSE 10 * NumeralValue(SubSeq(s, 1, Len(s) - 1)) + DigitValue(s[Len(s)])

\* int(x): an int is itself, a str of digits (blanks around it allowed) is its value;
\* any other str raises ValueError, any other value TypeError
IntRaises(x) == ~IsInt(x) /\ ~(x.t = "str" /\ IsNumeral(Strip(x.v)))
IntOf(x) == IF IsInt(x) THEN x.v[1] ELSE NumeralValue(Strip(x.v))
IntError(x) == IF x.t = "str" THEN "ValueError" ELSE "TypeError"

Max(a, b) == IF a >= b THEN a ELSE b
Min(a, b) == IF a <= b THEN a ELSE b

\* the lines of a range are numbered from 1, not from the start of the range
ViewFile_renumbered(content, view_range, max_characters, fs) ==
    LET lines == splitlines(content)
        total == Len(lines)
    IN  IF ~RangeGiven(view_range)
        THEN Viewed(Truncate(JoinNL(NumberedFrom(lines, 1)), max_characters), fs)
        ELSE LET first == view_range.v[1]
                 last == view_range.v[2]
             IN  IF first # PyNone /\ IntRaises(first) THEN Raised(IntError(first), fs)
                 ELSE IF last # PyInt(0 - 1) /\ IntRaises(last) THEN Raised(IntError(last), fs)
                 ELSE LET start_line == Max(1, IF first = PyNone THEN 1 ELSE IntOf(first))
                          end_line == IF last = PyInt(0 - 1) THEN total
                                      ELSE Min(total, Max(1, IntOf(last)))
                      IN  IF start_line > end_line \/ start_line > total
                          THEN Returned("Error: Invalid view_range", 0, TRUE, fs)
                          ELSE Viewed(Truncate(JoinNL(NumberedFrom(
                                          SubSeq(lines, start_line, end_line), 1)),
                                          max_characters), fs)

\* the file branch of execute_view once the content is read
ViewFile(content, view_range, max_characters, fs) ==
    LET lines == splitlines(content)
        total == Len(lines)
    IN  IF ~RangeGiven(view_range)
        THEN Viewed(Truncate(JoinNL(NumberedFrom(lines, 1)), max_characters), fs)
        ELSE LET first == view_range.v[1]
                 last == view_range.v[2]
             IN  IF first # PyNone /\ IntRaises(first) THEN Raised(IntError(first), fs)
                 ELSE IF last # PyInt(0 - 1) /\ IntRaises(last) THEN Raised(IntError(last), fs)
                 ELSE LET start_line == Max(1, IF first = PyNone THEN 1 ELSE IntOf(first))
                          end_line == IF last = PyInt(0 - 1) THEN total
                                      ELSE Min(total, Max(1, IntOf(last)))
                      IN  IF start_line > end_line \/ start_line > total
                          THEN Returned("Error: Invalid view_range", 0, TRUE, fs)
                          ELSE Viewed(Truncate(JoinNL(NumberedFrom(
                                          SubSeq(lines, start_line, end_line), start_line)),
                                          max_characters), fs)

\* execute_view(path, allowed_roots, view_range, max_characters, context_files, window)
execute_view(p, view_range, max_characters, roots, ctx, views, fs, env) ==
    LET r == resolve_path(p, roots, ctx, views, fs)
    IN  IF ~r.ok THEN Returned(r.err, 0, TRUE, fs)
        ELSE IF isdir(fs, r.path)
        THEN IF env = "read_oserror" THEN Returned("Error: Could not list directory", 0, TRUE, fs)
             ELSE Viewed(JoinNL(NumberedFrom(SortedSeq(listdir(fs, r.path)), 1)), fs)
        ELSE IF ~isfile(fs, r.path) THEN Returned(MsgFileNotFound, 0, TRUE, fs)
        ELSE IF env = "read_oserror" THEN Returned(MsgCouldNotRead, 0, TRUE, fs)
        ELSE ViewFile(ReadText(fs[r.path]), view_range, max_characters, fs)

RECURSIVE Ancestors(_)
\* d and the directories above it, the filesystem root excluded
Ancestors(d) ==
    IF Len(d) = 0 \/ AllSlashes(d) \/ dirname(d) = d THEN {}
    ELSE {d} \cup Ancestors(dirname(d))

\* os.makedirs(parent, exist_ok=True): fails when a regular file is in the way
MakedirsFails(fs, parent) == \E d \in Ancestors(parent) : isfile(fs, d)

Makedirs(fs, parent) ==
    LET missing == {d \in Ancestors(parent) : ~exists(fs, d)}
    IN  [q \in DOMAIN fs \cup missing |-> IF q \in missing THEN DIR ELSE fs[q]]

\* open(resolved, 'w') followed by f.write(text)
WriteFile(fs, p, text) == [q \in DOMAIN fs \cup {p} |-> IF q = p THEN text ELSE fs[q]]

\* the target is not looked at before it is written
execute_create_overwrites(p, file_text, roots, ctx, views, fs, env) ==
    LET r == resolve_path(p, roots, ctx, views, fs)
    IN  IF ~r.ok THEN Returned(r.err, 0, TRUE, fs)
        ELSE LET parent == dirname(r.path)
                 mk == Len(parent) > 0 /\ ~isdir(fs, parent)
             IN  IF mk /\ (env = "mkdir_oserror" \/ MakedirsFails(fs, parent))
                 THEN Returned("Error: Could not create directory", 0, TRUE, fs)
                 ELSE LET fs1 == IF mk THEN Makedirs(fs, parent) ELSE fs
                      IN  IF ~ensure_under_root(r.path, roots)
                          THEN Returned(ErrOutside, 0, TRUE, fs1)
                          ELSE IF env = "write_oserror"
                          THEN Returned(MsgCannotWrite, 0, TRUE, fs1)
                          ELSE IF ~IsStr(file_text)
                          THEN Raised("TypeError", WriteFile(fs1, r.path, <<>>))
                          ELSE Returned("Successfully created file.", 0, FALSE,
                                        WriteFile(fs1, r.path, file_text.v))

\* execute_create(path, file_text, allowed_roots, context_files, window)
execute_create(p, file_text, roots, ctx, views, fs, env) ==
    LET r == resolve_path(p, roots, ctx, views, fs)
    IN  IF ~r.ok THEN Returned(r.err, 0, TRUE, fs)
        ELSE IF exists(fs, r.path) THEN Returned("Error: File already exists.", 0, TRUE, fs)
        ELSE LET parent == dirname(r.path)
                 mk == Len(parent) > 0 /\ ~isdir(fs, parent)
             IN  IF mk /\ (env = "mkdir_oserror" \/ MakedirsFails(fs, parent))
                 THEN Returned("Error: Could not create directory", 0, TRUE, fs)
                 ELSE LET fs1 == IF mk THEN Makedirs(fs, parent) ELSE fs
                      IN  IF ~ensure_under_root(r.path, roots)
                          THEN Returned(ErrOutside, 0, TRUE, fs1)
                          ELSE IF env = "write_oserror"
                          THEN Returned(MsgCannotWrite, 0, TRUE, fs1)
                          ELSE IF ~IsStr(file_text)
                          THEN Raised("TypeError", WriteFile(fs1, r.path, <<>>))
                          ELSE Returned("Successfully created file.", 0, FALSE,
                                        WriteFile(fs1, r.path, file_text.v))

\* the new content execute_insert writes
InsertedContent(lines, insert_line, insert_text) ==
    IF insert_line = 0
    THEN insert_text
            \o (IF Len(lines) > 0 /\ ~EndsWith(lines[1], <<NL>>) THEN <<NL>> ELSE <<>>)
            \o Concat(lines)
    ELSE LET before == SubSeq(lines, 1, insert_line)
             after == SubSeq(lines, insert_line + 1, Len(lines))
         IN  Concat(before) \o insert_text
                \o (IF Len(after) > 0 /\ ~EndsWith(insert_text, <<NL>>) THEN <<NL>> ELSE <<>>)
                \o Concat(after)

\* execute_insert(path, insert_line, insert_text, allowed_roots, context_files, window)
execute_insert(p, insert_line, insert_text, roots, ctx, views, fs, env) ==
    LET r == resolve_path(p, roots, ctx, views, fs)
    IN  IF ~r.ok THEN Returned(r.err, 0, TRUE, fs)
        ELSE IF ~isfile(fs, r.path) THEN Returned(MsgFileNotFound, 0, TRUE, fs)
        ELSE IF ~ensure_under_root(r.path, roots) THEN Returned(ErrOutside, 0, TRUE, fs)
        ELSE IF env = "read_oserror" THEN Returned(MsgCouldNotRead, 0, TRUE, fs)
        ELSE IF env = "decode_error" THEN Raised("UnicodeDecodeError", fs)
        ELSE IF IntRaises(insert_line) THEN Raised(IntError(insert_line), fs)
        ELSE IF ~IsStr(insert_text) THEN Raised("TypeError", fs)
        ELSE IF env = "write_oserror" THEN Returned(MsgCannotWrite, 0, TRUE, fs)
        ELSE LET lines == readlines(ReadText(fs[r.path]))
                 n == Min(Max(0, IntOf(insert_line)), Len(lines))
             IN  Returned("Successfully inserted text.", 0, FALSE,
                          WriteFile(fs, r.path, InsertedContent(lines, n, insert_text.v)))

(***************************************************************************)
(* src/tools/text_editor.py: run_text_editor_tool                          *)
(***************************************************************************)
IsDict(x) == x.t = "dict"

\* bool(x) for the values of the model
Truthy(x) ==
    CASE x.t = "str" -> Len(x.v) > 0
      [] x.t = "list" -> Len(x.v) > 0
      [] x.t = "int" -> x.v[1] # 0
      [] x.t = "dict" -> TRUE
      [] OTHER -> FALSE

\* the tool_result block of a call that returned
ToolResultBlock(tool_use_id, out) ==
    [type |-> "tool_result", tool_use_id |-> tool_use_id, content |-> out.content,
     text |-> out.text, n |-> out.n, is_error |-> out.is_error]

\* what one tool call leaves: the block (when it returned), the exception (when it
\* raised) and the filesystem
ToolReturn(block, fs) == [raised |-> "", block |-> block, files |-> fs]
ToolRaise(exc, fs) == [raised |-> exc, block |-> <<>>, files |-> fs]

\* the executor's outcome as the outcome of run_text_editor_tool
Wrap(tool_use_id, out) ==
    IF out.raised # "" THEN ToolRaise(out.raised, out.files)
    ELSE ToolReturn(ToolResultBlock(tool_use_id, out), out.files)

\* run_text_editor_tool(tool_use_id, tool_name, input_params, window, settings, ...)
run_text_editor_tool(tool_use_id, tool_name, inp, max_characters, roots, ctx, views, fs, env) ==
    IF ~IsDict(inp) /\ Truthy(inp) THEN ToolRaise("AttributeError", fs)
    ELSE LET d == IF IsDict(inp) THEN inp.v ELSE NoInput
             command == Get(d, "command", PyStr(<<>>))
             p == Get(d, "path", PyStr(<<>>))
         IN  IF ~Truthy(command)
             THEN Wrap(tool_use_id, Returned("Error: Missing command.", 0, TRUE, fs))
             ELSE IF command = PyStr(<<"view">>)
             THEN Wrap(tool_use_id,
                       execute_view(p, Get(d, "view_range", PyNone), max_characters,
                                    roots, ctx, views, fs, env))
             ELSE IF command = PyStr(<<"str_replace">>)
             THEN Wrap(tool_use_id,
                       execute_str_replace(p, Get(d, "old_str", PyStr(<<>>)),
                                           Get(d, "new_str", PyStr(<<>>)),
                                           roots, ctx, views, fs, env))
             ELSE IF command = PyStr(<<"create">>)
             THEN Wrap(tool_use_id,
                       execute_create(p, Get(d, "file_text", PyStr(<<>>)),
                                      roots, ctx, views, fs, env))
             ELSE IF command = PyStr(<<"insert">>)
             THEN Wrap(tool_use_id,
                       execute_insert(p, Get(d, "insert_line", PyInt(0)),
                                      Get(d, "insert_text", PyStr(<<>>)),
                                      roots, ctx, views, fs, env))
             ELSE Wrap(tool_use_id, Returned("Error: Unknown command '{0}'.", 0, TRUE, fs))

(***************************************************************************)
(* src/api/api.py: calculate_cost                                          *)
(***************************************************************************)
\* claudette_session_stats; cost in thousandths of the currency unit
Stats(input_tokens, output_tokens, cost, web_search_requests) ==
    [input_tokens |-> input_tokens, output_tokens |-> output_tokens, cost |-> cost,
     web_search_requests |-> web_search_requests]

\* a pricing tier: the rates per 1000 tokens; cache rates may be missing (-1)
Tier(key, input, output, cache_write, cache_read) ==
    [key |-> key, input |-> input, output |-> output, cache_write |-> cache_write,
     cache_read |-> cache_read]

\* price_tier.get(name, 0)
RateOr0(rate) == IF rate < 0 THEN 0 ELSE rate

RECURSIVE FirstTier_last_wins(_, _)
\* the loop does not break: the last matching tier of the table is kept
FirstTier_last_wins(pricing, model_lower) ==
    IF Len(pricing) = 0 THEN <<>>
    ELSE IF Contains(model_lower, pricing[Len(pricing)].key) THEN <<pricing[Len(pricing)]>>
    ELSE FirstTier_last_wins(SubSeq(pricing, 1, Len(pricing) - 1), model_lower)

RECURSIVE FirstTier(_, _)
\* the first tier, in table order, whose key is a substring of the model name;
\* <<>> when none matches
FirstTier(pricing, model_lower) ==
    IF Len(pricing) = 0 THEN <<>>
    ELSE IF Contains(model_lower, Head(pricing).key) THEN <<Head(pricing)>>
    ELSE FirstTier(Tail(pricing), model_lower)

\* str.lower() on the characters of the model
LowerChar(c) == IF c = "O" THEN "o" ELSE IF c = "S" THEN "s" ELSE c
Lower(str) == [i \in 1..Len(str) |-> LowerChar(str[i])]

\* the cache reads are billed twice: as input tokens and as cache reads
calculate_cost_full_input(input_tokens, output_tokens, cache_read_tokens, cache_write_tokens, model, pricing) ==
    LET found == FirstTier(pricing, Lower(model))
    IN  IF Len(found) = 0 THEN 0
        ELSE LET price_tier == found[1]
             IN  input_tokens * price_tier.input
                 + output_tokens * price_tier.output
                 + cache_write_tokens * RateOr0(price_tier.cache_write)
                 + cache_read_tokens * RateOr0(price_tier.cache_read)

\* calculate_cost(...), in thousandths of the currency unit: tokens / 1000 * rate
\* is tokens * rate thousandths, which keeps the arithmetic exact
calculate_cost(input_tokens, output_tokens, cache_read_tokens, cache_write_tokens, model, pricing) ==
    LET found == FirstTier(pricing, Lower(model))
    IN  IF Len(found) = 0 THEN 0
        ELSE LET price_tier == found[1]
             IN  (input_tokens - cache_read_tokens) * price_tier.input
                 + output_tokens * price_tier.output
                 + cache_write_tokens * RateOr0(price_tier.cache_write)
                 + cache_read_tokens * RateOr0(price_tier.cache_read)

(***************************************************************************)
(* src/api/api.py: run_with_text_editor_loop                               *)
(***************************************************************************)
\* a content block of a response; a list item that is no dict has isdict FALSE
Block(type, text, id, input, items) ==
    [isdict |-> TRUE, type |-> type, text |-> text, id |-> id, input |-> input,
     items |-> items]

NonDictBlock == [isdict |-> FALSE, type |-> "", text |-> <<>>, id |-> PyAbsent,
                 input |-> PyAbsent, items |-> <<>>]

Message(role, content) == [role |-> role, content |-> content]

\* _message_has_content(msg)
message_has_content(msg) ==
    CASE msg.content.t = "str" -> Len(Strip(msg.content.v)) > 0
      [] msg.content.t = "list" -> Len(msg.content.v) > 0
      [] OTHER -> FALSE

\* a chunk_callback(chunk, is_done) call scheduled on the main thread
Chunk(kind, text, lines, is_done) ==
    [kind |-> kind, text |-> text, lines |-> lines, is_done |-> is_done]

\* the error is written to the chat, the turn is not closed
ErrorChunk_not_terminal(why) == Chunk(why, <<"[Error] ">>, <<>>, FALSE)

\* handle_error(error_msg)
ErrorChunk(why) == Chunk(why, <<"[Error] ">>, <<>>, TRUE)

\* chunk_callback("", is_done=True)
DoneChunk == Chunk("done", <<>>, <<>>, TRUE)

\* what the tool_use branch has done with the blocks handled so far
Progress(raised, assistant_content, tool_results, fs) ==
    [raised |-> raised, assistant_content |-> assistant_content,
     tool_results |-> tool_results, files |-> fs]

LoopMaxCharacters == 0

\* a plausible slip: the result is put in front of the earlier ones
CollectResult_in_front(tool_results, result) == <<result>> \o tool_results

\* tool_results.append(result)
CollectResult(tool_results, result) == Append(tool_results, result)

RECURSIVE RunTools(_, _, _, _, _, _)

\* the end of one pass of the for loop: the call raised, or its result is collected
\* and the loop goes on with the next block
AfterCall(block, r, rest, acc, roots, ctx, views, env) ==
    IF r.raised # ""
    THEN [acc EXCEPT !.raised = r.raised, !.files = r.files]
    ELSE RunTools(rest,
                  Progress("", Append(acc.assistant_content, block),
                           CollectResult(acc.tool_results, r.block), r.files),
                  roots, ctx, views, env)

\* the for loop over the content blocks of a tool_use response
RunTools(content, acc, roots, ctx, views, env) ==
    IF Len(content) = 0 \/ acc.raised # "" THEN acc
    ELSE LET block == Head(content)
             rest == Tail(content)
         IN  IF ~block.isdict THEN RunTools(rest, acc, roots, ctx, views, env)
             ELSE IF block.type = "text" /\ Len(block.text) > 0
             THEN RunTools(rest,
                     [acc EXCEPT !.assistant_content = Append(@, block)],
                     roots, ctx, views, env)
             ELSE IF block.type = "tool_use"
             THEN LET inp == Get(block, "input", PyDict(NoInput))
                  IN  IF ~IsDict(inp) THEN [acc EXCEPT !.raised = "AttributeError"]
                      ELSE IF Get(inp.v, "command", PyStr(<<"view">>)).t \in {"list", "dict"}
                      THEN [acc EXCEPT !.raised = "TypeError"]
                      ELSE AfterCall(block,
                                     run_text_editor_tool(
                                        Get(block, "id", PyStr(<<>>)), <<>>, inp,
                                        LoopMaxCharacters, roots, ctx, views, acc.files, env),
                                     rest, acc, roots, ctx, views, env)
             ELSE RunTools(rest, acc, roots, ctx, views, env)

\* stop_reason after the normalisation and the implicit end_turn rule
EffectiveStopReason(stop_reason, content) ==
    IF stop_reason = "" /\ Len(content) > 0
          /\ \E i \in 1..Len(content) : content[i].isdict /\ content[i].type = "text"
    THEN "end_turn"
    ELSE stop_reason

RECURSIVE TextParts(_)
\* the texts of the non-empty text blocks, in order
TextParts(content) ==
    IF Len(content) = 0 THEN <<>>
    ELSE LET block == Head(content)
         IN  (IF block.isdict /\ block.type = "text" /\ Len(block.text) > 0
              THEN <<block.text>> ELSE <<>>) \o TextParts(Tail(content))

\* "- [title](url)" for the results of one block that carry a url
ItemLines(items) ==
    SelectSeq(items, LAMBDA it : it.type = "web_search_result" /\ Len(it.url) > 0)

RECURSIVE SourcesLines(_)
\* the source lines of the web_search_tool_result blocks, in order
SourcesLines(content) ==
    IF Len(content) = 0 THEN <<>>
    ELSE LET block == Head(content)
         IN  (IF block.isdict /\ ~(block.type = "text" /\ Len(block.text) > 0)
                    /\ block.type = "web_search_tool_result"
              THEN ItemLines(block.items) ELSE <<>>) \o SourcesLines(Tail(content))

\* a plausible slip: the turn ends without the closing chunk
EndTurnChunks_without_done(content) ==
    LET final_text == Concat(TextParts(content))
        sources_lines == SourcesLines(content)
    IN  (IF Len(sources_lines) > 0
         THEN <<Chunk("sources", <<>>, sources_lines, FALSE)>> ELSE <<>>)
        \o (IF Len(final_text) > 0
            THEN <<Chunk("text", final_text, <<>>, FALSE)>> ELSE <<>>)

\* Done is scheduled before the source list and the text
EndTurnChunks_done_first(content) ==
    <<DoneChunk>> \o EndTurnChunks_without_done(content)

\* the chunk_callback calls of the end_turn branch, in the order they are scheduled
EndTurnChunks(content) ==
    LET final_text == Concat(TextParts(content))
        sources_lines == SourcesLines(content)
    IN  (IF Len(sources_lines) > 0
         THEN <<Chunk("sources", <<>>, sources_lines, FALSE)>> ELSE <<>>)
        \o (IF Len(final_text) > 0
            THEN <<Chunk("text", final_text, <<>>, FALSE)>> ELSE <<>>)
        \o <<DoneChunk>>

(***************************************************************************)
(* ClaudetteStreamingResponseHandler                                       *)
(***************************************************************************)
\* __init__: the fields, the texts appended to the view, and what the callbacks of
\* the chat view have been given (handle_response) and how often (on_complete)
NewHandler ==
    [current_response |-> <<>>, thinking_blocks |-> <<>>, current_thinking_text |-> <<>>,
     current_thinking_signature |-> PyNone, current_redacted_data |-> <<>>,
     is_completed |-> FALSE, in_thinking_block |-> FALSE, in_redacted_block |-> FALSE,
     line_buffer |-> <<>>, at_line_start |-> TRUE,
     view |-> <<>>, handled |-> <<>>, completions |-> 0, deleted |-> FALSE]

\* the arguments of one append_chunk call; thinking_event "" is None
Call(chunk, is_done, is_thinking, thinking_event, thinking_signature, redacted_data) ==
    [chunk |-> chunk, is_done |-> is_done, is_thinking |-> is_thinking,
     thinking_event |-> thinking_event, thinking_signature |-> thinking_signature,
     redacted_data |-> redacted_data]

\* _output_text(text)
output_text(h, text) == [h EXCEPT !.view = @ \o text]

\* get_thinking_blocks()
get_thinking_blocks(h) ==
    h.thinking_blocks
        \o (IF Len(h.current_thinking_text) > 0 /\ Truthy(h.current_thinking_signature)
            THEN <<[type |-> "thinking", thinking |-> h.current_thinking_text,
                    signature |-> h.current_thinking_signature.v, data |-> <<>>]>>
            ELSE <<>>)

\* get_response_content()
get_response_content(h) == h.current_response

\* chat_view.handle_response(response, thinking_blocks=...)
handle_response(h) ==
    [h EXCEPT !.handled = Append(@, [response |-> get_response_content(h),
                                      thinking_blocks |-> get_thinking_blocks(h)])]

\* the on_complete callback set by send_to_claude
on_complete(h) == [handle_response(h) EXCEPT !.completions = @ + 1]

\* one pass of the for loop over the characters of a text chunk
OutputChar(h, char) ==
    LET buffered == h.line_buffer \o <<char>>
        shown ==
            IF ~h.at_line_start THEN output_text(h, <<char>>)
            ELSE IF buffered = <<"#", SPACE>>
            THEN [output_text(h, <<"#", "#", SPACE>>) EXCEPT
                        !.line_buffer = <<>>, !.at_line_start = FALSE]
            ELSE IF buffered = <<"#">> THEN [h EXCEPT !.line_buffer = buffered]
            ELSE IF StartsWith(buffered, <<"#", "#">>)
                        \/ ~StartsWith(<<"#", SPACE>>, buffered)
            THEN [output_text(h, buffered) EXCEPT
                        !.line_buffer = <<>>, !.at_line_start = FALSE]
            ELSE [h EXCEPT !.line_buffer = buffered]
    IN  IF char = NL THEN [shown EXCEPT !.at_line_start = TRUE] ELSE shown

RECURSIVE OutputChars(_, _)
\* for char in chunk
OutputChars(h, chunk) ==
    IF Len(chunk) = 0 THEN h ELSE OutputChars(OutputChar(h, Head(chunk)), Tail(chunk))

\* the end of append_chunk: the buffer is flushed and on_complete runs when is_done
Complete(h, is_done) ==
    IF ~is_done THEN h
    ELSE on_complete([output_text(h, h.line_buffer) EXCEPT
                            !.line_buffer = <<>>, !.is_completed = TRUE])

\* append_chunk with a commit that keeps the thinking buffer (keeps), or with
\* redacted data that is also shown in the view (echoes)
append_chunk_variant(h, c, keeps, echoes) ==
    IF c.thinking_signature # PyNone
    THEN [h EXCEPT !.thinking_blocks =
                        Append(@, [type |-> "thinking", thinking |-> h.current_thinking_text,
                                   signature |-> c.thinking_signature.v, data |-> <<>>]),
                   !.current_thinking_text = IF keeps THEN @ ELSE <<>>,
                   !.current_thinking_signature = PyNone,
                   !.in_thinking_block = FALSE]
    ELSE IF c.thinking_event = "start"
    THEN [output_text(h, <<"**Thinking...**\n\n">>) EXCEPT !.in_thinking_block = TRUE]
    ELSE IF c.thinking_event = "start_redacted"
    THEN [output_text(h, <<"*(Reasoning encrypted for safety.)*\n\n">>) EXCEPT
                !.in_redacted_block = TRUE, !.current_redacted_data = <<>>]
    ELSE IF c.thinking_event = "end_redacted"
    THEN [h EXCEPT !.thinking_blocks =
                        IF Len(h.current_redacted_data) > 0
                        THEN Append(@, [type |-> "redacted_thinking", thinking |-> <<>>,
                                        signature |-> <<>>,
                                        data |-> h.current_redacted_data])
                        ELSE @,
                   !.current_redacted_data = <<>>,
                   !.in_redacted_block = FALSE]
    ELSE IF c.thinking_event = "end"
    THEN [output_text(h, <<"\n\n---\n\n">>) EXCEPT !.in_thinking_block = FALSE]
    ELSE IF c.redacted_data # PyNone /\ h.in_redacted_block
    THEN [output_text(h, IF echoes THEN c.redacted_data.v ELSE <<>>) EXCEPT
                !.current_redacted_data = @ \o c.redacted_data.v]
    ELSE IF c.is_thinking /\ h.in_thinking_block /\ Len(c.chunk) > 0
    THEN [output_text(h, c.chunk) EXCEPT !.current_thinking_text = @ \o c.chunk]
    ELSE Complete(OutputChars([h EXCEPT !.current_response = @ \o c.chunk], c.chunk),
                  c.is_done)

\* the commit of a signature leaves the thinking buffer as it is
append_chunk_keeps_buffer(h, c) == append_chunk_variant(h, c, TRUE, FALSE)

\* redacted data is written to the view
append_chunk_echoes_redacted(h, c) == append_chunk_variant(h, c, FALSE, TRUE)

\* append_chunk(chunk, is_done, is_thinking, thinking_event, thinking_signature,
\*              redacted_data); the fixed texts are one element of the view each
append_chunk(h, c) ==
    IF c.thinking_signature # PyNone
    THEN [h EXCEPT !.thinking_blocks =
                        Append(@, [type |-> "thinking", thinking |-> h.current_thinking_text,
                                   signature |-> c.thinking_signature.v, data |-> <<>>]),
                   !.current_thinking_text = <<>>,
                   !.current_thinking_signature = PyNone,
                   !.in_thinking_block = FALSE]
    ELSE IF c.thinking_event = "start"
    THEN [output_text(h, <<"**Thinking...**\n\n">>) EXCEPT !.in_thinking_block = TRUE]
    ELSE IF c.thinking_event = "start_redacted"
    THEN [output_text(h, <<"*(Reasoning encrypted for safety.)*\n\n">>) EXCEPT
                !.in_redacted_block = TRUE, !.current_redacted_data = <<>>]
    ELSE IF c.thinking_event = "end_redacted"
    THEN [h EXCEPT !.thinking_blocks =
                        IF Len(h.current_redacted_data) > 0
                        THEN Append(@, [type |-> "redacted_thinking", thinking |-> <<>>,
                                        signature |-> <<>>,
                                        data |-> h.current_redacted_data])
                        ELSE @,
                   !.current_redacted_data = <<>>,
                   !.in_redacted_block = FALSE]
    ELSE IF c.thinking_event = "end"
    THEN [output_text(h, <<"\n\n---\n\n">>) EXCEPT !.in_thinking_block = FALSE]
    ELSE IF c.redacted_data # PyNone /\ h.in_redacted_block
    THEN [h EXCEPT !.current_redacted_data = @ \o c.redacted_data.v]
    ELSE IF c.is_thinking /\ h.in_thinking_block /\ Len(c.chunk) > 0
    THEN [output_text(h, c.chunk) EXCEPT !.current_thinking_text = @ \o c.chunk]
    ELSE Complete(OutputChars([h EXCEPT !.current_response = @ \o c.chunk], c.chunk),
                  c.is_done)

\* __del__: a response that was never completed is handed over, and on_complete runs
handler_del(h) ==
    IF Len(h.current_response) > 0 /\ ~h.is_completed
    THEN [on_complete(handle_response(h)) EXCEPT !.deleted = TRUE]
    ELSE [h EXCEPT !.deleted = TRUE]

\* calculate_cost is not called, no ClaudetteClaudeAPI object is built, no turn runs
CallsIdle ==
    /\ cost_call = <<>>
    /\ auth = <<>>
    /\ api = <<>>
    /\ outbound = <<>>
    /\ turns = <<>>

\* no turn is streaming
StreamIdle ==
    /\ handler = NewHandler
    /\ calls = 0
    /\ stream = <<>>
    /\ questions = <<>>
    /\ CallsIdle

\* the tool loop is not running
LoopIdle ==
    /\ loop_pc = "idle"
    /\ config = [api_key |-> FALSE, text_editor_tool |-> FALSE, has_view |-> FALSE]
    /\ messages = <<>>
    /\ current_messages = <<>>
    /\ requests = 0
    /\ blocks_seen = 0
    /\ sink = <<>>
    /\ session_stats = Stats(0, 0, 0, 0)
    /\ stats_writes = 0
    /\ last_response = <<>>
    /\ request_messages = <<>>
    /\ StreamIdle

(***************************************************************************)
(* The inputs of resolve_path                                              *)
(***************************************************************************)
MaxPathLen == 5

PathAlphabet == {SLASH, DOT, "a", "b"}

PathStrings == UNION {[1..k -> PathAlphabet] : k \in 0..MaxPathLen}

\* paths with blanks, values that are no str, and longer paths whose '..' segment
\* normalization removes: /a/b/../a and /a/b/../..a
OddPaths ==
    {PyStr(<<SPACE>>), PyStr(<<SPACE, SLASH, "a", SLASH, "b", SPACE>>),
     PyStr(<<SLASH, "a", SPACE>>), PyNone, PyInt(1),
     PyStr(<<SLASH, "a", SLASH, "b", SLASH, DOT, DOT, SLASH, "a">>),
     PyStr(<<SLASH, "a", SLASH, "b", SLASH, DOT, DOT, SLASH, DOT, DOT, "a">>)}

PathInputs == {PyStr(s) : s \in PathStrings} \cup OddPaths

\* the lists get_allowed_roots can return: normalized absolute directories
RootLists ==
    {<< <<SLASH, "a">> >>,
     << <<SLASH, "b">>, <<SLASH, "a", SLASH, "b">> >>,
     << <<SLASH>> >>}

\* the regular files of the filesystem, with their content
FileAA == <<SLASH, "a", SLASH, "a">>
FileABA == <<SLASH, "a", "b", SLASH, "a">>
FileBB == <<SLASH, "b", SLASH, "b">>
FileGone == <<SLASH, "a", SLASH, "b", SLASH, "a">>

SandboxFiles ==
    (FileAA :> <<"x">>) @@ (FileABA :> <<"y">>) @@ (FileBB :> <<"z">>)
        @@ (<<SLASH, "a">> :> DIR) @@ (<<SLASH, "a", "b">> :> DIR) @@ (<<SLASH, "b">> :> DIR)

CtxEntry(abs) == [rel_path |-> basename(abs), absolute_path |-> abs]

\* claudette_context_files: files the user attached (one was deleted since)
ContextChoices ==
    {<<>>, <<CtxEntry(FileABA)>>, <<CtxEntry(FileGone), CtxEntry(FileAA)>>, <<CtxEntry(FileBB)>>}

\* the file names of the open views
ViewChoices == {<<>>, <<FileABA>>, <<FileBB, FileAA>>}

InitPath ==
    /\ path \in PathInputs
    /\ allowed_roots \in RootLists
    /\ context_files \in ContextChoices
    /\ open_views \in ViewChoices
    /\ files = SandboxFiles
    /\ resolved = NoCall
    /\ input_params = NoInput
    /\ io = "ok"
    /\ tool_result = NoResult
    /\ LoopIdle

\* one call of resolve_path
ResolvePathCall ==
    /\ resolved = NoCall
    /\ resolved' = resolve_path(path, allowed_roots, context_files, open_views, files)
    /\ UNCHANGED <<path, allowed_roots, context_files, open_views, files>>
    /\ UNCHANGED <<editVars, loopVars, streamVars, callVars>>

NextPath == ResolvePathCall

SpecPath == InitPath /\ [][NextPath]_vars

(***************************************************************************)
(* C2: containment of every path resolve_path returns                      *)
(***************************************************************************)
\* prefix of component lists
IsPrefixSeq(a, b) == Len(a) <= Len(b) /\ SubSeq(b, 1, Len(a)) = a

\* p names something inside root, component by component, without climbing out
ContainedIn(p, root) ==
    /\ isabs(p)
    /\ IsPrefixSeq(PathComps(root), PathComps(p))
    /\ \A i \in 1..Len(PathComps(p)) : PathComps(p)[i] # DOTDOT

\* C2: whenever resolve_path returns a path without an error, the path is
\* contained component-wise in at least one allowed root, in the hint branch,
\* the absolute branch and the relative branch alike
C2_ResolvedUnderRoot ==
    resolved.ok =>
        \E i \in 1..Len(allowed_roots) : ContainedIn(resolved.path, allowed_roots[i])

\* the hint branch answered: a bare name resolved to a context file whose
\* sibling directory /ab shares a string prefix with a root /a that is not its parent
C2_Witness ==
    /\ resolved.ok
    /\ path = PyStr(<<"a">>)
    /\ context_files = <<CtxEntry(FileABA)>>
    /\ allowed_roots = << <<SLASH>> >>
    /\ resolved.path = FileABA

\* the path has a segment '..'
HasDotDot(p) == \E i \in 1..Len(Split(p)) : Split(p)[i] = DOTDOT

\* where the normalized path points, seen from a root
Under(normalized, root) ==
    IF isabs(normalized) THEN normalized ELSE normpath(join(root, normalized))

\* C14: a path whose normalized form still has a '..' segment is rejected with the
\* traversal error, whatever the context files, the open views and the roots are;
\* and a path whose '..' segments normalization removes is accepted when the
\* normalized path is under an allowed root.
C14_TraversalOnlyIsRejected ==
    (resolved # NoCall /\ IsStr(path) /\ Len(Strip(path.v)) > 0) =>
        LET normalized == normpath(Strip(path.v))
        IN  /\ HasDotDot(normalized) => resolved = RootErr(ErrTraversal)
            /\ (/\ HasDotDot(Strip(path.v))
                /\ ~HasDotDot(normalized)
                /\ \E i \in 1..Len(allowed_roots) :
                        ContainedIn(Under(normalized, allowed_roots[i]),
                                    allowed_roots[i]))
                    => resolved.ok

(***************************************************************************)
(* The inputs of execute_str_replace                                       *)
(***************************************************************************)
MaxContentLen == 3
MaxOldLen == 2

TextAlphabet == {"a", "b"}

\* the content of the file /a/a before the call
Contents == UNION {[1..k -> TextAlphabet] : k \in 0..MaxContentLen}

OldStrs ==
    {PyStr(s) : s \in UNION {[1..k -> TextAlphabet] : k \in 0..MaxOldLen}}
        \cup {PyNone, PyAbsent}

NewStrs == {PyStr(<<>>), PyStr(<<"b">>), PyStr(<<"c">>), PyNone, PyAbsent}

\* a (existing), b (missing), ../a (traversal), /b/b (outside the root), no str
EditPaths ==
    {PyStr(<<"a">>), PyStr(<<"b">>), PyStr(<<DOT, DOT, SLASH, "a">>),
     PyStr(FileBB), PyNone}

StrReplaceInput(p, old_str, new_str) ==
    ToolInput(PyStr(<<"str_replace">>), p, PyAbsent, old_str, new_str,
              PyAbsent, PyAbsent, PyAbsent)

IoAnswers == {"ok", "read_oserror", "write_oserror", "decode_error"}

InitEdit ==
    /\ path = PyAbsent
    /\ allowed_roots = << <<SLASH, "a">> >>
    /\ context_files = <<>>
    /\ open_views \in {<<>>, <<FileBB>>}
    /\ \E c \in Contents : files = [SandboxFiles EXCEPT ![FileAA] = c]
    /\ resolved = NoCall
    /\ \E p \in EditPaths, o \in OldStrs, n \in NewStrs :
            input_params = StrReplaceInput(p, o, n)
    /\ io \in IoAnswers
    /\ tool_result = NoResult
    /\ LoopIdle

\* one call of execute_str_replace, as run_text_editor_tool makes it
StrReplaceCall ==
    /\ tool_result.content = "NoResult"
    /\ input_params.command = PyStr(<<"str_replace">>)
    /\ LET out == execute_str_replace(
                      Get(input_params, "path", PyStr(<<>>)),
                      Get(input_params, "old_str", PyStr(<<>>)),
                      Get(input_params, "new_str", PyStr(<<>>)),
                      allowed_roots, context_files, open_views, files, io)
       IN  /\ tool_result' = out
           /\ files' = out.files
    /\ UNCHANGED <<path, allowed_roots, context_files, open_views, resolved, input_params, io>>
    /\ UNCHANGED <<loopVars, streamVars, callVars>>

NextEdit == StrReplaceCall

SpecEdit == InitEdit /\ [][NextEdit]_vars

(***************************************************************************)
(* C3: str_replace succeeds if and only if old_str occurs exactly once     *)
(***************************************************************************)
\* the positions of s at which sub occurs
Occurrences(s, sub) ==
    Cardinality({i \in 1..(Len(s) - Len(sub) + 1) : SubSeq(s, i, i + Len(sub) - 1) = sub})

\* the call is made on an existing, readable and writable file with str arguments
EditableTarget ==
    /\ tool_result.content = "NoResult"
    /\ input_params.path = PyStr(<<"a">>)
    /\ io = "ok"
    /\ IsStr(Get(input_params, "old_str", PyStr(<<>>)))
    /\ IsStr(Get(input_params, "new_str", PyStr(<<>>)))

\* C3: execute_str_replace succeeds if and only if old_str occurs exactly once
\* in the file: with one occurrence the file is the old content with that
\* occurrence replaced by new_str; with zero or with two or more occurrences
\* it returns is_error=True and the file is unchanged
C3_ExactlyOnce ==
    [][(EditableTarget /\ tool_result'.content # "NoResult") =>
        LET old == Get(input_params, "old_str", PyStr(<<>>)).v
            new == Get(input_params, "new_str", PyStr(<<>>)).v
            occ == Occurrences(files[FileAA], old)
        IN  /\ occ = 1 =>
                /\ ~tool_result'.is_error
                /\ files' = [files EXCEPT ![FileAA] = StrReplaceFirst(files[FileAA], old, new)]
            /\ occ # 1 =>
                /\ tool_result'.is_error
                /\ files' = files
    ]_vars

(***************************************************************************)
(* The tool loop: configuration, server responses, one action per branch   *)
(***************************************************************************)
MaxRequests == 3
MaxBlocks == 2

ModelName == <<"O", "p", "u", "s">>

\* the pricing setting: rates per 1000 tokens, most specific tier first
PricingTable ==
    <<Tier(<<"o", "p", "u", "s">>, 15, 75, 0 - 1, 0 - 1), Tier(<<"o">>, 3, 15, 4, 1)>>

UserText == PyStr(<<"q">>)

\* the conversations handed to the loop: empty, blank only, one question, and a
\* conversation with a blank message and an earlier tool turn
Conversations ==
    {<<>>,
     <<Message("user", PyStr(<<SPACE>>))>>,
     <<Message("user", UserText)>>,
     <<Message("user", UserText), Message("assistant", PyStr(<<>>)),
       Message("user", PyList(<<Block("text", <<"q">>, PyAbsent, PyAbsent, <<>>)>>))>>}

ViewInput(p, view_range) ==
    PyDict(ToolInput(PyStr(<<"view">>), p, view_range, PyAbsent, PyAbsent,
                     PyAbsent, PyAbsent, PyAbsent))

\* the inputs of the tool_use blocks a response can carry
LoopInputs ==
    {ViewInput(PyStr(<<"a">>), PyAbsent),
     ViewInput(PyStr(<<"a">>), PyList(<<PyStr(<<"x">>), PyInt(2)>>)),
     ViewInput(PyStr(<<DOT, DOT, SLASH, "a">>), PyAbsent),
     PyDict(StrReplaceInput(PyStr(<<"a">>), PyStr(<<"x">>), PyStr(<<"b">>))),
     PyDict(StrReplaceInput(PyStr(<<"a">>), PyNone, PyStr(<<"b">>))),
     PyDict(ToolInput(PyStr(<<"delete">>), PyStr(<<"a">>), PyAbsent, PyAbsent, PyAbsent,
                      PyAbsent, PyAbsent, PyAbsent)),
     PyDict(ToolInput(PyList(<<>>), PyStr(<<"a">>), PyAbsent, PyAbsent, PyAbsent,
                      PyAbsent, PyAbsent, PyAbsent)),
     PyNone}

SearchItems ==
    <<[type |-> "web_search_result", url |-> <<"x">>, title |-> <<"a">>],
      [type |-> "web_search_result", url |-> <<>>, title |-> <<"b">>]>>

\* the blocks of a response before the server numbers the tool_use blocks
BlockKinds ==
    {Block("text", <<"a">>, PyAbsent, PyAbsent, <<>>),
     Block("text", <<>>, PyAbsent, PyAbsent, <<>>),
     Block("web_search_tool_result", <<>>, PyAbsent, PyAbsent, SearchItems),
     NonDictBlock}
        \cup {Block("tool_use", <<>>, PyAbsent, inp, <<>>) : inp \in LoopInputs}

\* the id the server gives the k-th block of the n-th response
BlockId(n, k) == PyStr(<<"t">> \o IntToStr(n) \o <<"_">> \o IntToStr(k))

\* the content of the n-th response: the tool_use blocks carry their ids
Numbered(kinds, n) ==
    [k \in 1..Len(kinds) |->
        IF kinds[k].isdict /\ kinds[k].type = "tool_use"
        THEN [kinds[k] EXCEPT !.id = BlockId(n, k)]
        ELSE kinds[k]]

StopReasons == {"tool_use", "end_turn", "", "max_tokens"}

Usages ==
    {[input_tokens |-> 0, output_tokens |-> 0],
     [input_tokens |-> 1000, output_tokens |-> 500]}

\* the answer to the n-th request of the turn
Response(n, stop_reason, content, usage) ==
    [request |-> n, stop_reason |-> stop_reason, content |-> content, usage |-> usage]

\* usage is read in the end_turn branch only: the other responses carry one value
OtherUsage == {[input_tokens |-> 1000, output_tokens |-> 500]}

LoopFiles ==
    (FileAA :> <<"x">>) @@ (FileBB :> <<"z">>)
        @@ (<<SLASH, "a">> :> DIR) @@ (<<SLASH, "b">> :> DIR)

InitLoop ==
    /\ path = PyAbsent
    /\ allowed_roots = << <<SLASH, "a">> >>
    /\ context_files = <<>>
    /\ open_views = <<>>
    /\ files = LoopFiles
    /\ resolved = NoCall
    /\ input_params = NoInput
    /\ io \in {"ok", "decode_error"}
    /\ tool_result = NoResult
    /\ loop_pc = "start"
    /\ config \in [api_key : BOOLEAN, text_editor_tool : BOOLEAN, has_view : BOOLEAN]
    /\ messages \in Conversations
    /\ current_messages = <<>>
    /\ requests = 0
    /\ blocks_seen = 0
    /\ sink = <<>>
    /\ session_stats = Stats(7, 5, 9, 0)
    /\ stats_writes = 0
    /\ last_response = <<>>
    /\ request_messages = <<>>
    /\ StreamIdle

LoopEnv == <<path, allowed_roots, context_files, open_views, resolved, input_params, io,
             tool_result, config, messages, streamVars, callVars>>

\* the function up to the while loop: the early returns
LoopStart ==
    /\ loop_pc = "start"
    /\ LET filtered == SelectSeq(messages, message_has_content)
       IN  IF Len(filtered) = 0
           THEN /\ loop_pc' = "done"
                /\ UNCHANGED <<sink, current_messages>>
           ELSE IF ~config.api_key
           THEN /\ loop_pc' = "done"
                /\ sink' = Append(sink, ErrorChunk("api_key_not_set"))
                /\ UNCHANGED current_messages
           ELSE IF ~config.text_editor_tool
           THEN /\ loop_pc' = "done"
                /\ sink' = Append(sink, ErrorChunk("tool_not_enabled"))
                /\ UNCHANGED current_messages
           ELSE /\ loop_pc' = "requesting"
                /\ current_messages' = filtered
                /\ UNCHANGED sink
    /\ UNCHANGED <<LoopEnv, files, requests, blocks_seen, session_stats, stats_writes,
                   last_response, request_messages>>

\* a request is sent and fails: HTTPError, URLError or any other exception
LoopRequestFails ==
    /\ loop_pc = "requesting"
    /\ requests < MaxRequests
    /\ \E why \in {"HTTPError", "URLError", "Exception"} :
            sink' = Append(sink, ErrorChunk(why))
    /\ requests' = requests + 1
    /\ request_messages' = current_messages
    /\ loop_pc' = "done"
    /\ UNCHANGED <<LoopEnv, files, current_messages, blocks_seen, session_stats,
                   stats_writes, last_response>>

\* the history is replaced by the last exchange
AppendToolTurn_forgets(done) ==
    /\ files' = done.files
    /\ IF done.raised # ""
       THEN /\ sink' = Append(sink, ErrorChunk(done.raised))
            /\ loop_pc' = "done"
            /\ UNCHANGED current_messages
       ELSE /\ current_messages' =
                    <<Message("assistant", PyList(done.assistant_content)),
                      Message("user", PyList(done.tool_results))>>
            /\ UNCHANGED <<sink, loop_pc>>

\* the end of the tool_use branch: the two messages are appended, or the exception
\* of a tool call ends the turn
AppendToolTurn(done) ==
    /\ files' = done.files
    /\ IF done.raised # ""
       THEN /\ sink' = Append(sink, ErrorChunk(done.raised))
            /\ loop_pc' = "done"
            /\ UNCHANGED current_messages
       ELSE /\ current_messages' = current_messages \o
                    <<Message("assistant", PyList(done.assistant_content)),
                      Message("user", PyList(done.tool_results))>>
            /\ UNCHANGED <<sink, loop_pc>>

\* a request is answered with stop_reason tool_use: the tools run, the history grows
LoopToolUse ==
    /\ loop_pc = "requesting"
    /\ requests < MaxRequests
    /\ \E sr \in StopReasons, k \in 0..(MaxBlocks - blocks_seen), u \in OtherUsage :
        \E kinds \in [1..k -> BlockKinds] :
            LET resp == Response(requests + 1, sr, Numbered(kinds, requests + 1), u)
            IN  /\ EffectiveStopReason(resp.stop_reason, resp.content) = "tool_use"
                /\ AppendToolTurn(RunTools(resp.content, Progress("", <<>>, <<>>, files),
                                           allowed_roots, context_files, open_views, io))
                /\ last_response' = resp
                /\ blocks_seen' = blocks_seen + Len(resp.content)
    /\ requests' = requests + 1
    /\ request_messages' = current_messages
    /\ UNCHANGED <<LoopEnv, session_stats, stats_writes>>

\* the stats write of the end_turn branch, made when a chat view is attached
UpdateStats(usage) ==
    IF config.has_view
    THEN /\ session_stats' =
                Stats(session_stats.input_tokens + usage.input_tokens,
                      session_stats.output_tokens + usage.output_tokens,
                      session_stats.cost
                        + calculate_cost(usage.input_tokens, usage.output_tokens, 0, 0,
                                         ModelName, PricingTable),
                      session_stats.web_search_requests)
         /\ stats_writes' = stats_writes + 1
    ELSE UNCHANGED <<session_stats, stats_writes>>

\* a request is answered with an explicit or implicit end_turn
LoopEndTurn ==
    /\ loop_pc = "requesting"
    /\ requests < MaxRequests
    /\ \E sr \in StopReasons, k \in 0..(MaxBlocks - blocks_seen), u \in Usages :
        \E kinds \in [1..k -> BlockKinds] :
            LET resp == Response(requests + 1, sr, Numbered(kinds, requests + 1), u)
            IN  /\ EffectiveStopReason(resp.stop_reason, resp.content) = "end_turn"
                /\ sink' = sink \o EndTurnChunks(resp.content)
                /\ UpdateStats(resp.usage)
                /\ last_response' = resp
                /\ blocks_seen' = blocks_seen + Len(resp.content)
    /\ requests' = requests + 1
    /\ request_messages' = current_messages
    /\ loop_pc' = "done"
    /\ UNCHANGED <<LoopEnv, files, current_messages>>

\* a request is answered with any other stop reason
LoopUnexpectedStop ==
    /\ loop_pc = "requesting"
    /\ requests < MaxRequests
    /\ \E sr \in StopReasons, k \in 0..(MaxBlocks - blocks_seen), u \in OtherUsage :
        \E kinds \in [1..k -> BlockKinds] :
            LET resp == Response(requests + 1, sr, Numbered(kinds, requests + 1), u)
            IN  /\ EffectiveStopReason(resp.stop_reason, resp.content)
                        \notin {"tool_use", "end_turn"}
                /\ last_response' = resp
                /\ blocks_seen' = blocks_seen + Len(resp.content)
    /\ sink' = Append(sink, ErrorChunk("unexpected_stop_reason"))
    /\ requests' = requests + 1
    /\ request_messages' = current_messages
    /\ loop_pc' = "done"
    /\ UNCHANGED <<LoopEnv, files, current_messages, session_stats, stats_writes>>

NextLoop ==
    \/ LoopStart
    \/ LoopRequestFails
    \/ LoopToolUse
    \/ LoopEndTurn
    \/ LoopUnexpectedStop

SpecLoop == InitLoop /\ [][NextLoop]_vars

(***************************************************************************)
(* Properties of the tool loop                                             *)
(***************************************************************************)
IsToolUse(b) == b.isdict /\ b.type = "tool_use"

\* the results answer the tool_use blocks one for one, in order, by id
Answers(results, uses) ==
    /\ Len(results) = Len(uses)
    /\ \A k \in 1..Len(uses) :
            /\ results[k].type = "tool_result"
            /\ results[k].tool_use_id = uses[k].id

\* a tool_use response was handled and the loop is about to send the next request
ToolTurnDone == loop_pc = "requesting" /\ requests > 0

\* C1: for a tool_use response with N tool_use blocks the user message appended
\* holds exactly N tool_result blocks in the same order with the same ids, and
\* every tool_use block of an assistant message of the history is answered by a
\* tool_result of the same id in the user message right after it.
C1_ToolResultsMatch ==
    /\ ToolTurnDone =>
            LET n == Len(current_messages)
            IN  /\ n >= 2
                /\ current_messages[n].role = "user"
                /\ current_messages[n].content.t = "list"
                /\ Answers(current_messages[n].content.v,
                           SelectSeq(last_response.content, IsToolUse))
    /\ \A i \in 1..Len(current_messages) :
            (current_messages[i].role = "assistant"
                /\ current_messages[i].content.t = "list") =>
                /\ i < Len(current_messages)
                /\ current_messages[i + 1].role = "user"
                /\ current_messages[i + 1].content.t = "list"
                /\ Answers(current_messages[i + 1].content.v,
                           SelectSeq(current_messages[i].content.v, IsToolUse))

\* two tool turns are in the history, the first with two tool_use blocks
C1_Witness ==
    /\ ToolTurnDone
    /\ requests = 2
    /\ \E i \in 1..Len(current_messages) :
            /\ current_messages[i].role = "assistant"
            /\ current_messages[i].content.t = "list"
            /\ Len(SelectSeq(current_messages[i].content.v, IsToolUse)) = 2
            /\ current_messages[i + 1].content.v[2].is_error

\* the chunks a step has added to the sink
Added == SubSeq(sink', Len(sink) + 1, Len(sink'))

\* a step whose request fails: no response is read
RequestFailed == loop_pc = "requesting" /\ requests' = requests + 1
                    /\ last_response' = last_response

\* a step that reads a response whose stop reason is neither tool_use nor an explicit
\* or implicit end_turn
UnexpectedStopRead ==
    /\ loop_pc = "requesting"
    /\ last_response' # last_response
    /\ last_response'.stop_reason \notin {"tool_use", "end_turn"}
    /\ ~(/\ last_response'.stop_reason = ""
          /\ \E i \in 1..Len(last_response'.content) :
                last_response'.content[i].isdict
                    /\ last_response'.content[i].type = "text")

\* C11: a response whose stop reason is neither tool_use nor end_turn, and any HTTP or
\* transport failure of a request, ends the loop with one explicit error event; the
\* step runs no tool and writes no stats, and after it no request is sent, no tool
\* runs and the session stats stay as they are.
C11_OtherStopsEndWithError ==
    [][/\ (RequestFailed \/ UnexpectedStopRead) =>
            /\ loop_pc' = "done"
            /\ Len(Added) = 1
            /\ Added[1].is_done
            /\ Added[1] # DoneChunk
            /\ Len(Added[1].text) > 0
            /\ UNCHANGED <<files, current_messages, session_stats, stats_writes>>
       /\ loop_pc = "done" =>
            UNCHANGED <<requests, files, current_messages, session_stats, stats_writes,
                        sink>>]_vars

\* an unexpected stop reason after a tool turn has ended the loop with its error
C11_Witness ==
    /\ loop_pc = "done"
    /\ requests = 2
    /\ last_response.request = 2
    /\ last_response.stop_reason = "max_tokens"
    /\ Len(current_messages) = 3
    /\ Len(sink) = 1
    /\ sink[1] = ErrorChunk("unexpected_stop_reason")

\* the exceptions a tool call of the loop can end in
ToolFailures == {"AttributeError", "TypeError", "ValueError", "UnicodeDecodeError"}

\* C4: every tool call of the loop ends in a tool_result value and none aborts the
\* turn: the loop never ends a turn with the error of a failed tool call.
C4_ToolFailuresAreValues ==
    \A i \in 1..Len(sink) : sink[i].kind \notin ToolFailures

RECURSIVE AllText(_, _)
\* the texts of the text blocks of a response from block i on, joined
AllText(content, i) ==
    IF i > Len(content) THEN <<>>
    ELSE (IF content[i].isdict /\ content[i].type = "text" THEN content[i].text ELSE <<>>)
            \o AllText(content, i + 1)

\* a step that reads a response which ends the turn
EndTurnRead ==
    /\ loop_pc = "requesting"
    /\ last_response' # last_response
    /\ \/ last_response'.stop_reason = "end_turn"
       \/ /\ last_response'.stop_reason = ""
          /\ \E i \in 1..Len(last_response'.content) :
                last_response'.content[i].isdict
                    /\ last_response'.content[i].type = "text"

\* what C10 says of the chunks: the final text when there is one, the source list
\* when there is one, and Done last
EndTurnDelivery ==
    LET text == AllText(last_response'.content, 1)
    IN  /\ Len(Added) >= 1
        /\ Added[Len(Added)] = DoneChunk
        /\ \A k \in 1..(Len(Added) - 1) : ~Added[k].is_done
        /\ (Len(text) > 0) <=> (\E k \in 1..Len(Added) : Added[k].kind = "text")
        /\ \A k \in 1..Len(Added) : Added[k].kind = "text" => Added[k].text = text
        /\ (\E i \in 1..Len(last_response'.content) :
                /\ last_response'.content[i].isdict
                /\ last_response'.content[i].type = "web_search_tool_result")
            <=> (\E k \in 1..Len(Added) : Added[k].kind = "sources")

\* once the turn is over no request is sent
NoFurtherRequest == loop_pc = "done" => (requests' = requests /\ loop_pc' = "done")

StatsUpdatedOnce ==
    /\ stats_writes' = stats_writes + 1
    /\ session_stats'.input_tokens
            = session_stats.input_tokens + last_response'.usage.input_tokens
    /\ session_stats'.output_tokens
            = session_stats.output_tokens + last_response'.usage.output_tokens

\* C10 as the spec states it: an end_turn response (explicit, or implicit by an empty
\* stop_reason with a text block) ends the loop: no further request, the final text
\* and the source list are delivered, the session stats are updated once, then Done.
C10_EndTurnAlwaysUpdatesStats ==
    [][/\ NoFurtherRequest
       /\ EndTurnRead => (loop_pc' = "done" /\ EndTurnDelivery /\ StatsUpdatedOnce)]_vars

\* C10 amended: the session stats are updated once when a chat view with a settings
\* store is attached; with none attached there is no store and no write. The rest is
\* as stated.
C10_EndTurnTerminates ==
    [][/\ NoFurtherRequest
       /\ EndTurnRead =>
            /\ loop_pc' = "done"
            /\ EndTurnDelivery
            /\ IF config.has_view THEN StatsUpdatedOnce
               ELSE UNCHANGED <<session_stats, stats_writes>>]_vars

\* an implicit end_turn after a tool turn has delivered sources, text and Done and
\* written the stats; and an end_turn without a chat view has been delivered too
C10_Witness ==
    /\ loop_pc = "done"
    /\ requests = 2
    /\ last_response.stop_reason = ""
    /\ Len(sink) = 3
    /\ sink[3] = DoneChunk
    /\ stats_writes = 1
    /\ session_stats.cost > 9

\* the blocks of a response that go into the assistant message: the tool_use blocks
\* and the text blocks that have text
IsKept(b) == b.isdict /\ (b.type = "tool_use" \/ (b.type = "text" /\ Len(b.text) > 0))

\* m is the conversation, in order, followed by k pairs of an assistant message and
\* a user message of tool_result blocks
HistoryOf(m, conversation, k) ==
    /\ Len(m) = Len(conversation) + 2 * k
    /\ SubSeq(m, 1, Len(conversation)) = conversation
    /\ \A j \in 1..k :
        LET a == m[Len(conversation) + 2 * j - 1]
            u == m[Len(conversation) + 2 * j]
        IN  /\ a.role = "assistant" /\ a.content.t = "list"
            /\ \A i \in 1..Len(a.content.v) : IsKept(a.content.v[i])
            /\ u.role = "user" /\ u.content.t = "list"
            /\ \A i \in 1..Len(u.content.v) : u.content.v[i].type = "tool_result"

\* C13: the request sent after k tool_use responses carries the filtered conversation,
\* unchanged and in order, followed by exactly 2k messages, alternately the assistant
\* message (the response's tool_use blocks and its text) and the user message of the
\* tool_result blocks; every request carries the whole history, each iteration sends
\* exactly one request, and a handled tool_use response appends exactly its pair.
C13_HistoryGrowsByTurns ==
    [][/\ requests' \in {requests, requests + 1}
       /\ last_response' # last_response =>
            (requests' = requests + 1 /\ last_response'.request = requests')
       /\ requests' = requests + 1 =>
            /\ request_messages' = current_messages
            /\ HistoryOf(request_messages', SelectSeq(messages, message_has_content),
                         requests)
       /\ (requests' = requests + 1 /\ loop_pc' = "requesting") =>
            /\ last_response'.stop_reason = "tool_use"
            /\ Len(current_messages') = Len(current_messages) + 2
            /\ SubSeq(current_messages', 1, Len(current_messages)) = current_messages
            /\ current_messages'[Len(current_messages) + 1]
                    = Message("assistant",
                              PyList(SelectSeq(last_response'.content, IsKept)))
            /\ HistoryOf(current_messages', SelectSeq(messages, message_has_content),
                         requests')]_vars

\* the third request of a turn has carried a conversation of two messages and the
\* pairs of two tool turns
C13_Witness ==
    /\ requests = 3
    /\ Len(SelectSeq(messages, message_has_content)) = 2
    /\ Len(request_messages) = 6
    /\ Len(request_messages[3].content.v) + Len(request_messages[5].content.v) = 2

\* the positions of the terminal events (chunk_callback with is_done=True) in the sink
Terminals == {i \in 1..Len(sink) : sink[i].is_done}

\* C12: a run of the loop that is given a message with content delivers exactly one
\* terminal event on each of its exit paths, and no event after it: while the loop
\* runs nothing terminal has been delivered, and once it has returned the last event
\* of the sink is the only terminal one.
C12_OneTerminalEvent ==
    (loop_pc # "idle" /\ Len(SelectSeq(messages, message_has_content)) > 0) =>
        /\ loop_pc \in {"start", "requesting"} => Terminals = {}
        /\ loop_pc = "done" => (Len(sink) > 0 /\ Terminals = {Len(sink)})

\* the exception of a tool call has ended the second iteration with one error event
C12_Witness ==
    /\ loop_pc = "done"
    /\ requests = 2
    /\ Len(sink) = 1
    /\ sink[1].is_done
    /\ sink[1].kind \in ToolFailures

(***************************************************************************)
(* The handler under any sequence of append_chunk calls                    *)
(***************************************************************************)
MaxCalls == 4

TextChunks == {<<>>, <<"a">>, <<"#">>, <<SPACE, NL>>}

\* the calls made on the handler: text, thinking text, the four events, a signature,
\* redacted data
HandlerCalls ==
    {Call(chunk, is_done, FALSE, "", PyNone, PyNone) :
        chunk \in TextChunks, is_done \in BOOLEAN}
    \cup {Call(chunk, is_done, TRUE, "", PyNone, PyNone) :
        chunk \in {<<>>, <<"a">>}, is_done \in BOOLEAN}
    \cup {Call(<<>>, FALSE, is_thinking, event, PyNone, PyNone) :
        is_thinking \in BOOLEAN,
        event \in {"start", "end", "start_redacted", "end_redacted"}}
    \cup {Call(chunk, FALSE, FALSE, "", PyStr(signature), PyNone) :
        chunk \in {<<>>, <<"a">>}, signature \in {<<>>, <<"s">>}}
    \cup {Call(chunk, FALSE, FALSE, "", PyNone, PyStr(data)) :
        chunk \in {<<>>, <<"a">>}, data \in {<<>>, <<"d">>}}

InitHandler ==
    /\ path = PyAbsent
    /\ allowed_roots = <<>>
    /\ context_files = <<>>
    /\ open_views = <<>>
    /\ files = <<>>
    /\ resolved = NoCall
    /\ input_params = NoInput
    /\ io = "ok"
    /\ tool_result = NoResult
    /\ LoopIdle

\* one append_chunk call
HandlerCall ==
    /\ ~handler.deleted
    /\ calls < MaxCalls
    /\ \E c \in HandlerCalls : handler' = append_chunk(handler, c)
    /\ calls' = calls + 1
    /\ UNCHANGED <<pathVars, editVars, loopVars, stream, questions, callVars>>

\* the handler is collected
HandlerDel ==
    /\ ~handler.deleted
    /\ handler' = handler_del(handler)
    /\ UNCHANGED <<pathVars, editVars, loopVars, calls, stream, questions, callVars>>

NextHandler == HandlerCall \/ HandlerDel

SpecHandler == InitHandler /\ [][NextHandler]_vars

\* C6: after any sequence of append_chunk calls every thinking block returned by
\* get_thinking_blocks() has a non-empty signature, every redacted_thinking block
\* has non-empty data, and thinking text that never received a signature is not in
\* the list.
C6_BlocksAreSigned ==
    \A i \in 1..Len(get_thinking_blocks(handler)) :
        LET b == get_thinking_blocks(handler)[i]
        IN  /\ b.type = "thinking" => Len(b.signature) > 0
            /\ b.type = "redacted_thinking" => Len(b.data) > 0

\* C15: a chunk flagged is_thinking is taken as thinking content only while a
\* thinking block is open, and never goes into the visible response current_response:
\* whatever call flagged is_thinking a step makes, the thinking text grows only in an
\* open block and current_response stays as it is.
C15_ThinkingStaysOutOfResponse ==
    [][\A c \in HandlerCalls :
        (c.is_thinking /\ Len(c.chunk) > 0 /\ handler' = append_chunk(handler, c)) =>
            /\ Len(handler'.current_thinking_text) > Len(handler.current_thinking_text)
                    => handler.in_thinking_block
            /\ handler'.current_response = handler.current_response]_vars

(***************************************************************************)
(* src/api/api.py: stream_response                                         *)
(***************************************************************************)
\* the usage object of a frame; present is FALSE when the frame carries none
Usage(present, input_tokens, output_tokens, cache_read, cache_write, web_search_requests) ==
    [present |-> present, input_tokens |-> input_tokens, output_tokens |-> output_tokens,
     cache_read |-> cache_read, cache_write |-> cache_write,
     web_search_requests |-> web_search_requests]

NoUsage == Usage(FALSE, 0, 0, 0, 0, 0)

\* the delta object of a frame: type "" when the key is missing, content of shape
\* "list", "dict" or "none"
Delta(type, text, citations, shape, content) ==
    [present |-> TRUE, type |-> type, text |-> text, citations |-> citations,
     shape |-> shape, content |-> content]

NoDelta == [present |-> FALSE, type |-> "", text |-> <<>>, citations |-> <<>>,
            shape |-> "none", content |-> <<>>]

\* a line of the response: line is "data" for a frame that parses, "blank" for a
\* line that is skipped, "bad" for one that does not decode or parse, "DONE" for
\* the sentinel; index -1 is a missing index
Frame(line, type, index, block_type, items, delta, usage) ==
    [line |-> line, type |-> type, index |-> index, block_type |-> block_type,
     items |-> items, delta |-> delta, usage |-> usage]

RECURSIVE parse_web_search_items(_, _)
\* parse_web_search_items(items): the lines up to the first error item
parse_web_search_items(items, lines) ==
    IF Len(items) = 0 THEN [lines |-> lines, has_error |-> FALSE]
    ELSE IF Head(items).type = "web_search_tool_result_error"
    THEN [lines |-> lines, has_error |-> TRUE]
    ELSE parse_web_search_items(Tail(items), lines \o ItemLines(<<Head(items)>>))

\* " [{0}]({1}) ".format(title, url) for the citations that carry a url
CitationChunks(citations) ==
    [k \in 1..Len(SelectSeq(citations, LAMBDA cit : Len(cit.url) > 0)) |->
        LET cit == SelectSeq(citations, LAMBDA c : Len(c.url) > 0)[k]
        IN  Chunk("citation",
                  <<SPACE, "[">> \o (IF Len(cit.title) > 0 THEN cit.title ELSE cit.url)
                        \o <<"]", "(">> \o cit.url \o <<")", SPACE>>,
                  <<>>, FALSE)]

\* the locals of stream_response before the request; notices are the status
\* messages shown outside the sink
NewStream(thinking, window) ==
    [pc |-> "start", thinking |-> thinking, window |-> window, statuses |-> <<>>,
     frames |-> <<>>, input_tokens |-> 0, output_tokens |-> 0, web_search_requests |-> 0,
     stream_web_search_sources |-> <<>>, stream_current_block_type |-> "",
     stream_current_block_index |-> 0 - 1, notices |-> <<>>]

\* what one pass of the for loop leaves: the locals, the chunk_callback calls it
\* scheduled, the session stats and whether they were written
Pass(st, chunks, stats, wrote) ==
    [stream |-> st, chunks |-> chunks, stats |-> stats, wrote |-> wrote]

\* the deltas of every block are added to the sources of the current block
TrackBlock_any_index(st, f) ==
    IF f.type = "content_block_start"
    THEN LET opened == [st EXCEPT !.stream_current_block_index = f.index,
                                  !.stream_current_block_type = f.block_type]
             parsed == parse_web_search_items(f.items, <<>>)
         IN  IF f.block_type = "server_tool_use"
             THEN [opened EXCEPT !.notices = Append(@, "Searching the web...")]
             ELSE IF f.block_type # "web_search_tool_result" THEN opened
             ELSE IF parsed.has_error
             THEN [opened EXCEPT !.stream_web_search_sources = <<>>,
                                 !.notices = Append(@, "Web search error")]
             ELSE [opened EXCEPT !.stream_web_search_sources = parsed.lines]
    ELSE IF f.type = "content_block_delta"
    THEN LET parsed == parse_web_search_items(f.delta.content, <<>>)
         IN  IF st.stream_current_block_type = "web_search_tool_result"
                    /\ f.delta.shape \in {"list", "dict"}
                    /\ ~parsed.has_error
             THEN [st EXCEPT !.stream_web_search_sources = @ \o parsed.lines]
             ELSE st
    ELSE IF f.type = "content_block_stop" /\ f.index = st.stream_current_block_index
    THEN [st EXCEPT !.stream_current_block_type = "",
                    !.stream_current_block_index = 0 - 1]
    ELSE st

\* the web search bookkeeping of content_block_start, _delta and _stop
TrackBlock(st, f) ==
    IF f.type = "content_block_start"
    THEN LET opened == [st EXCEPT !.stream_current_block_index = f.index,
                                  !.stream_current_block_type = f.block_type]
             parsed == parse_web_search_items(f.items, <<>>)
         IN  IF f.block_type = "server_tool_use"
             THEN [opened EXCEPT !.notices = Append(@, "Searching the web...")]
             ELSE IF f.block_type # "web_search_tool_result" THEN opened
             ELSE IF parsed.has_error
             THEN [opened EXCEPT !.stream_web_search_sources = <<>>,
                                 !.notices = Append(@, "Web search error")]
             ELSE [opened EXCEPT !.stream_web_search_sources = parsed.lines]
    ELSE IF f.type = "content_block_delta"
    THEN LET parsed == parse_web_search_items(f.delta.content, <<>>)
         IN  IF f.index = st.stream_current_block_index
                    /\ st.stream_current_block_type = "web_search_tool_result"
                    /\ f.delta.shape \in {"list", "dict"}
                    /\ ~parsed.has_error
             THEN [st EXCEPT !.stream_web_search_sources = @ \o parsed.lines]
             ELSE st
    ELSE IF f.type = "content_block_stop" /\ f.index = st.stream_current_block_index
    THEN [st EXCEPT !.stream_current_block_type = "",
                    !.stream_current_block_index = 0 - 1]
    ELSE st

\* the chunk_callback calls of one frame before message_stop: the source list at
\* content_block_stop, the text of a delta, the links of its citations
ContentChunks(st, f) ==
    (IF f.type = "content_block_stop" /\ f.index = st.stream_current_block_index
            /\ st.stream_current_block_type = "web_search_tool_result"
            /\ Len(st.stream_web_search_sources) > 0
     THEN <<Chunk("sources", <<>>, st.stream_web_search_sources, FALSE)>> ELSE <<>>)
    \o (IF f.delta.present /\ Len(f.delta.text) > 0 /\ f.delta.type \in {"text_delta", ""}
        THEN <<Chunk("text", f.delta.text, <<>>, FALSE)>> ELSE <<>>)
    \o (IF f.delta.present THEN CitationChunks(f.delta.citations) ELSE <<>>)

\* the token counts are saved, the cost and the web searches are left for later
MessageStop_tokens_only(st, f, chunks, has_view, stats) ==
    IF has_view
    THEN Pass([st EXCEPT !.notices = Append(@, "Tokens")], Append(chunks, DoneChunk),
              Stats(stats.input_tokens + st.input_tokens,
                    stats.output_tokens + st.output_tokens,
                    stats.cost, stats.web_search_requests),
              TRUE)
    ELSE Pass(st, chunks, stats, FALSE)

\* the message_stop branch: the cost, the session stats when a chat view is
\* attached, the status message and Done; without a chat view the local
\* session_stats is unbound at its use, the exception is swallowed with the frame
MessageStop(st, f, chunks, has_view, stats) ==
    LET requests_made == IF f.usage.present THEN f.usage.web_search_requests ELSE 0
        current_cost ==
            calculate_cost(st.input_tokens, st.output_tokens,
                           IF f.usage.present THEN f.usage.cache_read ELSE 0,
                           IF f.usage.present THEN f.usage.cache_write ELSE 0,
                           ModelName, PricingTable)
                + requests_made * 10
        counted == [st EXCEPT !.web_search_requests = requests_made]
    IN  IF has_view
        THEN Pass([counted EXCEPT !.notices = Append(@, "Tokens")],
                  Append(chunks, DoneChunk),
                  Stats(stats.input_tokens + st.input_tokens,
                        stats.output_tokens + st.output_tokens,
                        stats.cost + current_cost,
                        stats.web_search_requests + requests_made),
                  TRUE)
        ELSE Pass(counted, chunks, stats, FALSE)

\* one pass of 'for line in response' over a frame that parses
DataFrame(st, f, has_view, stats) ==
    LET counted ==
            IF f.type = "message_start" /\ f.usage.present
            THEN [st EXCEPT !.input_tokens = f.usage.input_tokens]
            ELSE IF f.type = "message_delta" /\ f.usage.present
            THEN [st EXCEPT !.output_tokens = f.usage.output_tokens]
            ELSE st
        tracked == TrackBlock(counted, f)
        chunks == ContentChunks(counted, f)
    IN  IF f.type = "message_stop"
        THEN MessageStop(tracked, f, chunks, has_view, stats)
        ELSE Pass(tracked, chunks, stats, FALSE)

\* a line that does not parse ends the read loop
ReadLine_abort_on_bad(st, f, has_view, stats) ==
    LET read == [st EXCEPT !.frames = Append(@, f)]
    IN  IF f.line \in {"DONE", "bad"} THEN Pass([read EXCEPT !.pc = "done"], <<>>, stats, FALSE)
        ELSE IF f.line = "data" THEN DataFrame(read, f, has_view, stats)
        ELSE Pass(read, <<>>, stats, FALSE)

\* one pass of 'for line in response'
ReadLine(st, f, has_view, stats) ==
    LET read == [st EXCEPT !.frames = Append(@, f)]
    IN  IF f.line = "DONE" THEN Pass([read EXCEPT !.pc = "done"], <<>>, stats, FALSE)
        ELSE IF f.line = "data" THEN DataFrame(read, f, has_view, stats)
        ELSE Pass(read, <<>>, stats, FALSE)

RECURSIVE Deliver_last_first(_, _)
\* the scheduled calls of a pass run last one first
Deliver_last_first(h, chunks) ==
    IF Len(chunks) = 0 THEN h
    ELSE Deliver_last_first(
            IF chunks[Len(chunks)].kind = "sources" THEN h
            ELSE append_chunk(h, Call(chunks[Len(chunks)].text, chunks[Len(chunks)].is_done,
                                      FALSE, "", PyNone, PyNone)),
            SubSeq(chunks, 1, Len(chunks) - 1))

RECURSIVE Deliver(_, _)
\* the scheduled calls run on the main thread in the order they were scheduled;
\* the call with insert_after_response_header raises TypeError in append_chunk
Deliver(h, chunks) ==
    IF Len(chunks) = 0 THEN h
    ELSE Deliver(IF Head(chunks).kind = "sources" THEN h
                 ELSE append_chunk(h, Call(Head(chunks).text, Head(chunks).is_done, FALSE,
                                           "", PyNone, PyNone)),
                 Tail(chunks))

\* the answer to a request: the status code and the error object of the body, the
\* message as its words (empty when the body does not parse); code 0 with the
\* exception as type when urlopen raised something else
HTTPError(code, type, message) == [code |-> code, type |-> type, message |-> message]

\* a plausible slip: a 400 that does not name thinking is tried again
HTTPErrorPass_retry(st, e, has_view) ==
    LET seen == [st EXCEPT !.statuses = Append(@, e),
                           !.pc = IF e.code = 400 THEN "open" ELSE "done"]
    IN  IF e.code = 404 /\ e.type = "not_found_error" /\ StartsWith(e.message, <<"model:">>)
        THEN IF has_view /\ st.window
             THEN Pass([seen EXCEPT !.notices = Append(@, "model does not exist")],
                       <<>>, <<>>, FALSE)
             ELSE Pass(seen, <<ErrorChunk("model does not exist")>>, <<>>, FALSE)
        ELSE IF Len(e.message) > 0
        THEN Pass(seen, <<ErrorChunk("error_message")>>, <<>>, FALSE)
        ELSE Pass(seen, <<ErrorChunk("HTTPError")>>, <<>>, FALSE)

\* except urllib.error.HTTPError: the error is shown and the function returns
HTTPErrorPass(st, e, has_view) ==
    LET seen == [st EXCEPT !.statuses = Append(@, e), !.pc = "done"]
    IN  IF e.code = 404 /\ e.type = "not_found_error" /\ StartsWith(e.message, <<"model:">>)
        THEN IF has_view /\ st.window
             THEN Pass([seen EXCEPT !.notices = Append(@, "model does not exist")],
                       <<>>, <<>>, FALSE)
             ELSE Pass(seen, <<ErrorChunk("model does not exist")>>, <<>>, FALSE)
        ELSE IF Len(e.message) > 0
        THEN Pass(seen, <<ErrorChunk("error_message")>>, <<>>, FALSE)
        ELSE Pass(seen, <<ErrorChunk("HTTPError")>>, <<>>, FALSE)

RECURSIVE AnyContent(_)
\* any(msg.get('content', '').strip() for msg in messages); .strip() of a list raises
AnyContent(msgs) ==
    IF Len(msgs) = 0 THEN "False"
    ELSE IF Head(msgs).content.t # "str" THEN "AttributeError"
    ELSE IF Len(Strip(Head(msgs).content.v)) > 0 THEN "True"
    ELSE AnyContent(Tail(msgs))

(***************************************************************************)
(* One turn of stream_response with the handler of send_to_claude as sink  *)
(***************************************************************************)
MaxFrames == 4

HTTPErrors ==
    {HTTPError(400, "invalid_request_error", <<"thinking", "is", "not", "supported">>),
     HTTPError(400, "invalid_request_error", <<"max_tokens", "too", "large">>),
     HTTPError(401, "authentication_error", <<"invalid", "x-api-key">>),
     HTTPError(404, "not_found_error", <<"model:", "x">>),
     HTTPError(404, "not_found_error", <<"no", "such", "page">>),
     HTTPError(529, "", <<>>)}

TextDelta(index, type, text, citations) ==
    Frame("data", "content_block_delta", index, "", <<>>,
          Delta(type, text, citations, "none", <<>>), NoUsage)

\* the lines the server can send
Frames ==
    {Frame("blank", "", 0 - 1, "", <<>>, NoDelta, NoUsage),
     Frame("bad", "", 0 - 1, "", <<>>, NoDelta, NoUsage),
     Frame("DONE", "", 0 - 1, "", <<>>, NoDelta, NoUsage),
     Frame("data", "message_start", 0 - 1, "", <<>>, NoDelta,
           Usage(TRUE, 1000, 0, 200, 0, 0)),
     Frame("data", "content_block_start", 1, "web_search_tool_result", SearchItems,
           NoDelta, NoUsage),
     TextDelta(0, "text_delta", <<"a">>, <<>>),
     TextDelta(0, "", <<"#">>, <<>>),
     TextDelta(0, "text_delta", <<"b">>, <<[url |-> <<"u">>, title |-> <<"t">>]>>),
     TextDelta(0, "thinking_delta", <<>>, <<>>),
     Frame("data", "content_block_stop", 1, "", <<>>, NoDelta, NoUsage),
     Frame("data", "message_delta", 0 - 1, "", <<>>,
           Delta("", <<>>, <<>>, "none", <<>>), Usage(TRUE, 0, 500, 0, 0, 0)),
     Frame("data", "message_stop", 0 - 1, "", <<>>, NoDelta, NoUsage),
     Frame("data", "message_stop", 0 - 1, "", <<>>, NoDelta,
           Usage(TRUE, 0, 0, 200, 0, 1))}

InitStream ==
    /\ path = PyAbsent
    /\ allowed_roots = <<>>
    /\ context_files = <<>>
    /\ open_views = <<>>
    /\ files = <<>>
    /\ resolved = NoCall
    /\ input_params = NoInput
    /\ io = "ok"
    /\ tool_result = NoResult
    /\ loop_pc = "idle"
    /\ config \in [api_key : BOOLEAN, text_editor_tool : {FALSE}, has_view : BOOLEAN]
    /\ messages \in {c \in Conversations : Len(c) <= 1}
    /\ current_messages = <<>>
    /\ requests = 0
    /\ blocks_seen = 0
    /\ sink = <<>>
    /\ session_stats = Stats(7, 5, 9, 0)
    /\ stats_writes = 0
    /\ last_response = <<>>
    /\ request_messages = <<>>
    /\ handler = NewHandler
    /\ calls = 0
    /\ stream \in {NewStream(TRUE, window) : window \in {w \in BOOLEAN : w => config.has_view}}
    /\ questions = <<>>
    /\ CallsIdle

StreamEnv == <<pathVars, editVars, loop_pc, config, messages, current_messages,
               blocks_seen, last_response, request_messages, questions, callVars>>

\* what a step of the worker leaves: the locals, the scheduled calls and their
\* effect on the handler, the session stats
Leave(pass) ==
    /\ stream' = pass.stream
    /\ sink' = sink \o pass.chunks
    /\ handler' = Deliver(handler, pass.chunks)
    /\ calls' = calls + Len(SelectSeq(pass.chunks, LAMBDA c : c.kind # "sources"))
    /\ IF pass.wrote
       THEN session_stats' = pass.stats /\ stats_writes' = stats_writes + 1
       ELSE UNCHANGED <<session_stats, stats_writes>>

\* the function up to the request: the early returns
StreamStart ==
    /\ stream # <<>>
    /\ stream.pc = "start"
    /\ IF Len(messages) = 0 \/ AnyContent(messages) # "True"
       THEN Leave(Pass([stream EXCEPT !.pc = "done"], <<>>, <<>>, FALSE))
       ELSE IF ~config.api_key
       THEN Leave(Pass([stream EXCEPT !.pc = "done"],
                       <<ErrorChunk("api_key_not_set")>>, <<>>, FALSE))
       ELSE Leave(Pass([stream EXCEPT !.pc = "open"], <<>>, <<>>, FALSE))
    /\ UNCHANGED <<StreamEnv, requests>>

\* urlopen succeeds: the response is read line by line
StreamAccepted ==
    /\ stream # <<>>
    /\ stream.pc = "open"
    /\ requests' = requests + 1
    /\ Leave(Pass([stream EXCEPT !.pc = "reading",
                                 !.statuses = Append(@, HTTPError(200, "", <<>>))],
                  <<>>, <<>>, FALSE))
    /\ UNCHANGED StreamEnv

\* urlopen raises HTTPError
StreamHTTPError ==
    /\ stream # <<>>
    /\ stream.pc = "open"
    /\ requests' = requests + 1
    /\ \E e \in HTTPErrors : Leave(HTTPErrorPass(stream, e, config.has_view))
    /\ UNCHANGED StreamEnv

\* urlopen raises URLError or another exception
StreamTransportError ==
    /\ stream # <<>>
    /\ stream.pc = "open"
    /\ requests' = requests + 1
    /\ \E why \in {"URLError", "Exception"} :
            Leave(Pass([stream EXCEPT !.pc = "done",
                                      !.statuses = Append(@, HTTPError(0, why, <<>>))],
                       <<ErrorChunk(why)>>, <<>>, FALSE))
    /\ UNCHANGED StreamEnv

\* one line of the response is read
StreamLine ==
    /\ stream # <<>>
    /\ stream.pc = "reading"
    /\ Len(stream.frames) < MaxFrames
    /\ \E f \in Frames : Leave(ReadLine(stream, f, config.has_view, session_stats))
    /\ UNCHANGED <<StreamEnv, requests>>

\* the response ends: the server closes it, or reading it raises
StreamEnds ==
    /\ stream # <<>>
    /\ stream.pc = "reading"
    /\ \/ Leave(Pass([stream EXCEPT !.pc = "done"], <<>>, <<>>, FALSE))
       \/ Leave(Pass([stream EXCEPT !.pc = "done"], <<ErrorChunk("Exception")>>, <<>>, FALSE))
    /\ UNCHANGED <<StreamEnv, requests>>

\* the worker has returned and the handler is collected
StreamHandlerDel ==
    /\ stream # <<>>
    /\ stream.pc = "done"
    /\ HandlerDel

NextStream ==
    \/ StreamStart
    \/ StreamAccepted
    \/ StreamHTTPError
    \/ StreamTransportError
    \/ StreamLine
    \/ StreamEnds
    \/ StreamHandlerDel

SpecStream == InitStream /\ [][NextStream]_vars

(***************************************************************************)
(* Properties of stream_response                                           *)
(***************************************************************************)
RECURSIVE TextOf(_)
\* the text fields of the text deltas of the frames, joined in order
TextOf(frames) ==
    IF Len(frames) = 0 THEN <<>>
    ELSE (IF Head(frames).type = "content_block_delta"
                /\ Head(frames).delta.type = "text_delta"
          THEN Head(frames).delta.text ELSE <<>>) \o TextOf(Tail(frames))

\* a stream as the server sends it: message_start first, message_stop last and only
\* there, every line a frame that parses, every delta with its type
WellFormed(frames) ==
    /\ Len(frames) >= 2
    /\ frames[1].type = "message_start"
    /\ frames[Len(frames)].type = "message_stop"
    /\ \A i \in 1..Len(frames) :
            /\ frames[i].line = "data"
            /\ frames[i].type = "message_stop" => i = Len(frames)
            /\ frames[i].type = "message_start" => i = 1
            /\ frames[i].type = "content_block_delta" => frames[i].delta.type # ""

\* C5: for every well-formed stream, the response the handler has accumulated when
\* Done arrives is the in-order concatenation of the text fields of the stream's
\* text deltas, and nothing else.
C5_ResponseIsTextDeltas ==
    (/\ stream # <<>>
     /\ stream.pc = "reading"
     /\ WellFormed(stream.frames)
     /\ Len(sink) > 0
     /\ sink[Len(sink)] = DoneChunk)
        => get_response_content(handler) = TextOf(stream.frames)

\* C7: whenever a message_stop frame is read, Done is delivered to the sink, in
\* every configuration (with or without a chat view).
C7_StopDeliversDone ==
    [][(/\ stream.pc = "reading"
        /\ Len(stream'.frames) = Len(stream.frames) + 1
        /\ stream'.frames[Len(stream'.frames)].type = "message_stop")
            => (Len(sink') = Len(sink) + 1 /\ sink'[Len(sink')] = DoneChunk)]_vars

ThinkingWords == {"thinking", "adaptive", "budget_tokens", "effort", "output_config"}

\* a 400 whose error message or type names thinking
ThinkingRejection(e) ==
    /\ e.code = 400
    /\ \/ e.type \in ThinkingWords
       \/ \E i \in 1..Len(e.message) : e.message[i] \in ThinkingWords

\* C8: with thinking requested and no cached mode the modes adaptive, manual, none
\* are tried one after another: a turn whose first request was rejected with a
\* thinking-related 400 does not end before a second request was sent.
C8_NextModeIsTried ==
    (/\ stream # <<>>
     /\ stream.thinking
     /\ stream.pc = "done"
     /\ Len(stream.statuses) >= 1
     /\ ThinkingRejection(stream.statuses[1]))
        => Len(stream.statuses) >= 2

\* the request of this step was answered with an error that is no thinking rejection
OtherFailure ==
    /\ requests' = requests + 1
    /\ stream'.statuses[Len(stream'.statuses)].code \notin {0, 200}
    /\ ~ThinkingRejection(stream'.statuses[Len(stream'.statuses)])

\* the step has shown an error: a terminal chunk for the sink, or a message in the chat
ErrorShown ==
    \/ /\ Len(sink') = Len(sink) + 1
       /\ sink'[Len(sink')].is_done
       /\ sink'[Len(sink')] # DoneChunk
    \/ Len(stream'.notices) = Len(stream.notices) + 1

FrameRead == stream.pc = "reading" /\ Len(stream'.frames) = Len(stream.frames) + 1

\* the line the step has read
ReadFrame == stream'.frames[Len(stream'.frames)]

\* the usage a message_stop frame carries, 0 where it carries none
StopUsage(f) == IF f.usage.present THEN f.usage ELSE NoUsage

\* the session stats after the turn's totals have been added
TurnAdded(f) ==
    Stats(session_stats.input_tokens + stream.input_tokens,
          session_stats.output_tokens + stream.output_tokens,
          session_stats.cost
            + calculate_cost(stream.input_tokens, stream.output_tokens,
                             StopUsage(f).cache_read, StopUsage(f).cache_write,
                             ModelName, PricingTable)
            + 10 * StopUsage(f).web_search_requests,
          session_stats.web_search_requests + StopUsage(f).web_search_requests)

Decoder(st) == [st EXCEPT !.frames = <<>>]

\* the next line g is handled from the state after the step as it is handled from the
\* state before it
SameFuture(g) ==
    LET after == ReadLine(stream', g, config.has_view, session_stats')
        before == ReadLine(stream, g, config.has_view, session_stats)
    IN  /\ after.chunks = before.chunks
        /\ after.stats = before.stats
        /\ after.wrote = before.wrote
        /\ Decoder(after.stream) = Decoder(before.stream)

\* C18: a frame that cannot be decoded or parsed is skipped: the step emits no event,
\* leaves the decoder state (block index and type, web-search sources, token counters)
\* and the session stats as they are, and every later frame is handled as if the bad
\* frame had not been in the stream.
C18_BadFrameIsSkipped ==
    [][(FrameRead /\ ReadFrame.line = "bad") =>
            /\ UNCHANGED <<sink, handler, calls, session_stats, stats_writes>>
            /\ Decoder(stream') = Decoder(stream)
            /\ \A g \in Frames : SameFuture(g)]_vars

\* a stream with an unparsable line in it has been decoded as the same stream
\* without the line: the text, Done and the stats of the turn
C18_Witness ==
    /\ stream # <<>>
    /\ Len(stream.frames) = 4
    /\ stream.frames[1].type = "message_start"
    /\ stream.frames[2].line = "bad"
    /\ stream.frames[4].type = "message_stop"
    /\ sink = <<Chunk("text", <<"a">>, <<>>, FALSE), DoneChunk>>
    /\ stream.pc = "reading"
    /\ session_stats.input_tokens = 1007

RECURSIVE TextsOf(_)
\* the texts of the calls that reach append_chunk, joined in the order of the calls
TextsOf(chunks) ==
    IF Len(chunks) = 0 THEN <<>>
    ELSE (IF Head(chunks).kind = "sources" THEN <<>> ELSE Head(chunks).text)
            \o TextsOf(Tail(chunks))

\* the place of an event among the events of its frame: the search-result list of a
\* closed block, the text of the delta, the links of its citations, Done
EventRank(c) ==
    CASE c.kind = "sources" -> 1
      [] c.kind = "text" -> 2
      [] c.kind = "citation" -> 3
      [] OTHER -> 4

EndedEarly ==
    /\ stream # <<>>
    /\ stream.pc = "done"
    /\ Len(stream.statuses) > 0
    /\ stream.statuses[Len(stream.statuses)].code = 200
    /\ \A i \in 1..Len(stream.frames) :
            ~(stream.frames[i].line = "data" /\ stream.frames[i].type = "message_stop")

\* C20: when the response ends before any message_stop frame, no Done is emitted and
\* an incomplete-turn status is given to the caller instead: once stream_response has
\* returned the sink holds a terminal event, and it is not Done.
C20_EarlyEndIsReported ==
    EndedEarly =>
        /\ \A i \in 1..Len(sink) : sink[i] # DoneChunk
        /\ \E i \in 1..Len(sink) : sink[i].is_done

(***************************************************************************)
(* src/chat/ask_question.py: the questions of one chat view and the worker *)
(* thread each of them starts                                              *)
(***************************************************************************)
MaxQuestions == 3

\* what the user can type into the input panel
AskTexts == {<<>>, <<SPACE>>, <<"q">>}

\* one question of the chat view: worker is "none" when handle_input returned before
\* send_to_claude, "started" after thread.start(), "in_flight" from urlopen until
\* stream_response has read the response, "returned" after
Asked(question, worker) == [question |-> question, worker |-> worker]

InitAsk ==
    /\ path = PyAbsent
    /\ allowed_roots = <<>>
    /\ context_files = <<>>
    /\ open_views = <<>>
    /\ files = <<>>
    /\ resolved = NoCall
    /\ input_params = NoInput
    /\ io = "ok"
    /\ tool_result = NoResult
    /\ LoopIdle

\* handle_input(code, question) and send_to_claude: a blank question, a chat panel
\* that cannot be made and a missing API key return early; otherwise the worker
\* thread of the question is started
HandleInput ==
    /\ Len(questions) < MaxQuestions
    /\ \E question \in AskTexts, panel \in BOOLEAN, api_key \in BOOLEAN :
            questions' = Append(questions,
                Asked(question,
                      IF Len(Strip(question)) = 0 \/ ~panel \/ ~api_key
                      THEN "none" ELSE "started"))
    /\ UNCHANGED <<pathVars, editVars, loopVars, handler, calls, stream, callVars>>

\* the worker of a question calls urlopen: its request is in flight
WorkerSends ==
    /\ \E i \in 1..Len(questions) :
            /\ questions[i].worker = "started"
            /\ questions' = [questions EXCEPT ![i].worker = "in_flight"]
    /\ UNCHANGED <<pathVars, editVars, loopVars, handler, calls, stream, callVars>>

\* the worker of a question has read its response, or the request failed
WorkerReturns ==
    /\ \E i \in 1..Len(questions) :
            /\ questions[i].worker = "in_flight"
            /\ questions' = [questions EXCEPT ![i].worker = "returned"]
    /\ UNCHANGED <<pathVars, editVars, loopVars, handler, calls, stream, callVars>>

NextAsk == HandleInput \/ WorkerSends \/ WorkerReturns

SpecAsk == InitAsk /\ [][NextAsk]_vars

\* the questions of the chat view whose request is in flight
InFlight == {i \in 1..Len(questions) : questions[i].worker = "in_flight"}

\* C17: for one chat view at most one network request is in flight at any time: a
\* second question does not start a request while the worker of an earlier question
\* is still reading its response.
C17_OneRequestInFlight == Cardinality(InFlight) <= 1

(***************************************************************************)
(* stream_response over the frames of web search result blocks             *)
(***************************************************************************)
MaxSearchFrames == 4

ResultX == [type |-> "web_search_result", url |-> <<"x">>, title |-> <<"a">>]
ResultY == [type |-> "web_search_result", url |-> <<"y">>, title |-> <<"b">>]
ResultZ == [type |-> "web_search_result", url |-> <<"z">>, title |-> <<"c">>]
ResultNoUrl == [type |-> "web_search_result", url |-> <<>>, title |-> <<"d">>]
ErrorItem == [type |-> "web_search_tool_result_error", url |-> <<>>, title |-> <<>>]

BlockStart(index, block_type, items) ==
    Frame("data", "content_block_start", index, block_type, items, NoDelta, NoUsage)

\* a content_block_delta whose delta carries 'content': a list of items or one item
ContentDelta(index, shape, content) ==
    Frame("data", "content_block_delta", index, "", <<>>,
          Delta("", <<>>, <<>>, shape, content), NoUsage)

BlockStop(index) ==
    Frame("data", "content_block_stop", index, "", <<>>, NoDelta, NoUsage)

\* the lines of a response that carries web search result blocks
SearchFrames ==
    {BlockStart(1, "web_search_tool_result", <<ResultX>>),
     BlockStart(1, "web_search_tool_result", <<>>),
     BlockStart(1, "web_search_tool_result", <<ResultX, ErrorItem>>),
     BlockStart(2, "text", <<>>),
     ContentDelta(1, "list", <<ResultY, ResultNoUrl>>),
     ContentDelta(1, "dict", <<ResultZ>>),
     ContentDelta(1, "list", <<ErrorItem>>),
     ContentDelta(2, "list", <<ResultZ>>),
     BlockStop(1),
     BlockStop(2),
     Frame("data", "message_stop", 0 - 1, "", <<>>, NoDelta, NoUsage)}

InitSearch ==
    /\ path = PyAbsent
    /\ allowed_roots = <<>>
    /\ context_files = <<>>
    /\ open_views = <<>>
    /\ files = <<>>
    /\ resolved = NoCall
    /\ input_params = NoInput
    /\ io = "ok"
    /\ tool_result = NoResult
    /\ loop_pc = "idle"
    /\ config \in [api_key : {TRUE}, text_editor_tool : {FALSE}, has_view : BOOLEAN]
    /\ messages = <<Message("user", UserText)>>
    /\ current_messages = <<>>
    /\ requests = 0
    /\ blocks_seen = 0
    /\ sink = <<>>
    /\ session_stats = Stats(7, 5, 9, 0)
    /\ stats_writes = 0
    /\ last_response = <<>>
    /\ request_messages = <<>>
    /\ handler = NewHandler
    /\ calls = 0
    /\ stream = NewStream(TRUE, config.has_view)
    /\ questions = <<>>
    /\ CallsIdle

\* one line of a response with web search result blocks is read
SearchLine ==
    /\ stream # <<>>
    /\ stream.pc = "reading"
    /\ Len(stream.frames) < MaxSearchFrames
    /\ \E f \in SearchFrames : Leave(ReadLine(stream, f, config.has_view, session_stats))
    /\ UNCHANGED <<StreamEnv, requests>>

NextSearch ==
    \/ StreamStart
    \/ StreamAccepted
    \/ SearchLine
    \/ StreamEnds

SpecSearch == InitSearch /\ [][NextSearch]_vars

\* the frame is a parsed frame of the type
IsData(f, type) == f.line = "data" /\ f.type = type

\* the place of the last content_block_start before place j of the log, 0 without one
LastStart(fr, j) ==
    LET starts == {i \in 1..(j - 1) : IsData(fr[i], "content_block_start")}
    IN  IF starts = {} THEN 0 ELSE CHOOSE i \in starts : \A k \in starts : k <= i

\* the place of the start frame of the web search result block the frame at place j
\* belongs to: the block started last, of that type, with the frame's index and not
\* stopped yet; 0 when the frame belongs to no such block
SearchBlockOf(fr, j) ==
    LET i == LastStart(fr, j)
    IN  IF /\ i > 0
           /\ fr[i].block_type = "web_search_tool_result"
           /\ fr[i].index = fr[j].index
           /\ \A k \in (i + 1)..(j - 1) :
                ~(IsData(fr[k], "content_block_stop") /\ fr[k].index = fr[i].index)
        THEN i ELSE 0

\* the items a frame delivers: content_block.content, or delta.content
FrameItems(f) ==
    IF IsData(f, "content_block_start") THEN f.items
    ELSE IF IsData(f, "content_block_delta") /\ f.delta.shape \in {"list", "dict"}
    THEN f.delta.content
    ELSE <<>>

RECURSIVE BlockItems(_, _, _)
\* the items of the block started at place i, delivered up to place j, in arrival
\* order: those of the start frame and of the deltas that carry its index
BlockItems(fr, i, j) ==
    IF j < i THEN <<>>
    ELSE BlockItems(fr, i, j - 1)
            \o (IF j = i \/ (IsData(fr[j], "content_block_delta")
                                /\ fr[j].index = fr[i].index)
                THEN FrameItems(fr[j]) ELSE <<>>)

HasErrorItem(items) ==
    \E k \in 1..Len(items) : items[k].type = "web_search_tool_result_error"

\* the 'Search Results' lists a step has emitted
SourceLists == SelectSeq(Added, LAMBDA c : c.kind = "sources")

\* the step reads the content_block_stop of a web search result block
ClosesSearchBlock ==
    /\ FrameRead
    /\ IsData(ReadFrame, "content_block_stop")
    /\ SearchBlockOf(stream'.frames, Len(stream'.frames)) > 0

\* the items of the block the step closes
ClosedItems ==
    BlockItems(stream'.frames, SearchBlockOf(stream'.frames, Len(stream'.frames)),
               Len(stream'.frames))

\* the step reads a frame of a web search result block, its start frame or one of
\* its deltas, that delivers an error item
ErrorItemArrives ==
    /\ FrameRead
    /\ HasErrorItem(FrameItems(ReadFrame))
    /\ \/ IsData(ReadFrame, "content_block_start")
            /\ ReadFrame.block_type = "web_search_tool_result"
       \/ IsData(ReadFrame, "content_block_delta")
            /\ SearchBlockOf(stream'.frames, Len(stream'.frames)) > 0

\* C21: for every web_search_tool_result block in which an item of type
\* web_search_tool_result_error arrives, in content_block_start or in any
\* content_block_delta of the block, the error notice is surfaced when the item
\* arrives, and no 'Search Results' list is emitted when the block stops.
C21_ErrorSuppressesSourceList ==
    [][/\ ErrorItemArrives =>
            stream'.notices = Append(stream.notices, "Web search error")
       /\ (ClosesSearchBlock /\ HasErrorItem(ClosedItems)) => SourceLists = <<>>]_vars

\* C22: the content_block_stop of a web_search_tool_result block without an error
\* item emits one list holding, in arrival order, exactly the results with a URL of
\* the start frame and of the deltas with the block's index, and nothing when there
\* are none; the block index and type are cleared by the stop frame; and a list is
\* emitted by no other step, so at most once per block.
C22_SourceListIsTheBlocksResults ==
    [][/\ (ClosesSearchBlock /\ ~HasErrorItem(ClosedItems)) =>
            /\ SourceLists =
                    (IF Len(ItemLines(ClosedItems)) > 0
                     THEN <<Chunk("sources", <<>>, ItemLines(ClosedItems), FALSE)>>
                     ELSE <<>>)
            /\ stream'.stream_current_block_type = ""
            /\ stream'.stream_current_block_index = 0 - 1
       /\ Len(SourceLists) > 0 => (ClosesSearchBlock /\ Len(SourceLists) = 1)]_vars

\* a block that got one result at its start and two more in a delta, one of them
\* without a URL, has been stopped after a delta of another block: the list holds the
\* two results with a URL, and no block is current
C22_Witness ==
    /\ stream # <<>>
    /\ stream.frames = <<BlockStart(1, "web_search_tool_result", <<ResultX>>),
                         ContentDelta(1, "list", <<ResultY, ResultNoUrl>>),
                         ContentDelta(2, "list", <<ResultZ>>),
                         BlockStop(1)>>
    /\ sink = <<Chunk("sources", <<>>, <<ResultX, ResultY>>, FALSE)>>
    /\ stream.stream_current_block_type = ""

(***************************************************************************)
(* One call of calculate_cost                                              *)
(***************************************************************************)
\* the token counts of a usage object
TokenCounts == {0, 200, 500, 1000}

\* the model setting: the name is matched in lower case
ModelNames == {ModelName, <<"S", "o">>, <<"o", "s">>, <<"x">>}

TierOpus == Tier(<<"o", "p", "u", "s">>, 15, 75, 0 - 1, 0 - 1)
TierO == Tier(<<"o">>, 3, 15, 4, 1)
TierS == Tier(<<"s">>, 1, 5, 2, 0 - 1)
\* a key with a capital is in no lower case name
TierCapital == Tier(<<"O">>, 7, 9, 0 - 1, 0 - 1)

\* the pricing setting: the tiers in the order of the settings file
PricingTables ==
    {<<TierOpus, TierO>>, <<TierO, TierOpus>>, <<TierCapital, TierS, TierO>>,
     <<TierCapital>>, <<>>}

\* the arguments of a call and, once it has returned, the cost in thousandths
CostCall(input_tokens, output_tokens, cache_read_tokens, cache_write_tokens, model, pricing,
         returned, cost) ==
    [input_tokens |-> input_tokens, output_tokens |-> output_tokens,
     cache_read_tokens |-> cache_read_tokens, cache_write_tokens |-> cache_write_tokens,
     model |-> model, pricing |-> pricing, returned |-> returned, cost |-> cost]

InitCost ==
    /\ path = PyAbsent
    /\ allowed_roots = <<>>
    /\ context_files = <<>>
    /\ open_views = <<>>
    /\ files = <<>>
    /\ resolved = NoCall
    /\ input_params = NoInput
    /\ io = "ok"
    /\ tool_result = NoResult
    /\ loop_pc = "idle"
    /\ config = [api_key |-> FALSE, text_editor_tool |-> FALSE, has_view |-> FALSE]
    /\ messages = <<>>
    /\ current_messages = <<>>
    /\ requests = 0
    /\ blocks_seen = 0
    /\ sink = <<>>
    /\ session_stats = Stats(0, 0, 0, 0)
    /\ stats_writes = 0
    /\ last_response = <<>>
    /\ request_messages = <<>>
    /\ handler = NewHandler
    /\ calls = 0
    /\ stream = <<>>
    /\ questions = <<>>
    /\ \E i \in TokenCounts, o \in {0, 500}, r \in {0, 200}, w \in {0, 200},
          m \in ModelNames, t \in PricingTables :
            cost_call = CostCall(i, o, r, w, m, t, FALSE, 0)
    /\ auth = <<>>
    /\ api = <<>>
    /\ outbound = <<>>
    /\ turns = <<>>

\* self.calculate_cost(input_tokens, output_tokens, cache_read_tokens, cache_write_tokens)
CostCalled ==
    /\ cost_call # <<>>
    /\ ~cost_call.returned
    /\ cost_call' =
            [cost_call EXCEPT
                !.returned = TRUE,
                !.cost = calculate_cost(cost_call.input_tokens, cost_call.output_tokens,
                                        cost_call.cache_read_tokens,
                                        cost_call.cache_write_tokens,
                                        cost_call.model, cost_call.pricing)]
    /\ UNCHANGED <<pathVars, editVars, loopVars, streamVars, auth, api, outbound, turns>>

NextCost == CostCalled

SpecCost == InitCost /\ [][NextCost]_vars

\* key occurs in name at some offset
IsSubstring(key, name) ==
    \E k \in 0..(Len(name) - Len(key)) : SubSeq(name, k + 1, k + Len(key)) = key

\* the places of the tiers whose key is in the lower case model name
Matching == {k \in 1..Len(cost_call.pricing) :
                IsSubstring(cost_call.pricing[k].key, Lower(cost_call.model))}

\* the price of the call at the rates of a tier, in thousandths: tokens / 1000 * rate
PriceAt(tier) ==
    (cost_call.input_tokens - cost_call.cache_read_tokens) * tier.input
        + cost_call.output_tokens * tier.output
        + cost_call.cache_write_tokens
            * (IF tier.cache_write = 0 - 1 THEN 0 ELSE tier.cache_write)
        + cost_call.cache_read_tokens
            * (IF tier.cache_read = 0 - 1 THEN 0 ELSE tier.cache_read)

\* C23: for every matched pricing tier and all token counts calculate_cost returns
\* (input - cacheRead)/1000 * inputRate + output/1000 * outputRate
\* + cacheWrite/1000 * cacheWriteRate + cacheRead/1000 * cacheReadRate, a missing
\* cache rate counting as 0; 1000 input and 500 output tokens at 15 and 75 cost 52.5
C23_CostFormula ==
    (cost_call # <<>> /\ cost_call.returned) =>
        /\ \A k \in Matching :
                (\A j \in Matching : k <= j) => cost_call.cost = PriceAt(cost_call.pricing[k])
        /\ (/\ cost_call.input_tokens = 1000 /\ cost_call.output_tokens = 500
            /\ cost_call.cache_read_tokens = 0 /\ cost_call.cache_write_tokens = 0
            /\ cost_call.model = ModelName /\ cost_call.pricing = <<TierOpus, TierO>>)
                => cost_call.cost = 52500

\* the call with cache reads and cache writes: 800 billable input tokens at 3, 500
\* output tokens at 15, 200 cache writes at 4 and 200 cache reads at 1
C23_Witness ==
    /\ cost_call # <<>>
    /\ cost_call.returned
    /\ cost_call.input_tokens = 1000 /\ cost_call.output_tokens = 500
    /\ cost_call.cache_read_tokens = 200 /\ cost_call.cache_write_tokens = 200
    /\ cost_call.pricing = <<TierO, TierOpus>>
    /\ cost_call.model = ModelName
    /\ cost_call.cost = 2400 + 7500 + 800 + 200

\* C24: calculate_cost prices the model with the first tier, in the order of the
\* pricing table, whose key is a substring of the lower case model name, whatever
\* tiers match after it; when no key matches it returns 0.
C24_FirstMatchingTier ==
    (cost_call # <<>> /\ cost_call.returned) =>
        IF Matching = {} THEN cost_call.cost = 0
        ELSE \E k \in Matching :
                /\ \A j \in 1..(k - 1) : j \notin Matching
                /\ cost_call.cost = PriceAt(cost_call.pricing[k])

\* two tiers match 'opus' and the first one of the table, the cheaper 'o', has priced
\* the call
C24_Witness ==
    /\ cost_call # <<>>
    /\ cost_call.returned
    /\ cost_call.model = ModelName
    /\ cost_call.pricing = <<TierO, TierOpus>>
    /\ Cardinality(Matching) = 2
    /\ cost_call.input_tokens = 1000 /\ cost_call.cache_read_tokens = 0
    /\ cost_call.output_tokens = 0 /\ cost_call.cache_write_tokens = 0
    /\ cost_call.cost = 3000

(***************************************************************************)
(* One call of execute_view, execute_create or execute_insert              *)
(***************************************************************************)
MaxFileLen == 4

\* the content of the file /a/a before the call: lines of 'a' ended by '\n', and
\* two files with '\r\n' and '\r' line ends
FileTexts ==
    UNION {[1..k -> {"a", NL}] : k \in 0..MaxFileLen}
        \cup {<<"a", CR, NL, "a">>, <<"a", CR, "a", NL>>}

ToolFiles(content) ==
    (FileAA :> content) @@ (FileBB :> <<"z">>)
        @@ (<<SLASH, "a">> :> DIR) @@ (<<SLASH, "b">> :> DIR)

\* no view_range, a list that is too short, and the pairs [start, end]
ViewRanges ==
    {PyAbsent, PyList(<<PyInt(1)>>)}
        \cup {PyList(<<first, last>>) :
                first \in {PyNone, PyInt(0), PyInt(2), PyInt(3)},
                last \in {PyInt(0 - 1), PyInt(0), PyInt(1), PyInt(2), PyInt(5)}}

\* text_editor_tool_max_characters: no budget, and a budget of one numbered line
MaxCharacters == {0, 4}

\* a (a file), b (missing), . (the root directory)
ViewPaths == {PyStr(<<"a">>), PyStr(<<"b">>), PyStr(<<DOT>>)}

CreateInput(p, file_text) ==
    ToolInput(PyStr(<<"create">>), p, PyAbsent, PyAbsent, PyAbsent, file_text,
              PyAbsent, PyAbsent)

\* a (exists), c (new), c/c (new, parent missing), a/c (a file in the way), . (the
\* root), ../c (traversal), /b/c (outside the root)
CreatePaths ==
    {PyStr(<<"a">>), PyStr(<<"c">>), PyStr(<<"c", SLASH, "c">>), PyStr(<<"a", SLASH, "c">>),
     PyStr(<<DOT>>), PyStr(<<DOT, DOT, SLASH, "c">>), PyStr(<<SLASH, "b", SLASH, "c">>)}

FileTextArgs == {PyStr(<<>>), PyStr(<<"x">>), PyStr(<<"a", NL>>), PyNone, PyAbsent}

InsertInput(p, insert_line, insert_text) ==
    ToolInput(PyStr(<<"insert">>), p, PyAbsent, PyAbsent, PyAbsent, PyAbsent,
              insert_line, insert_text)

InsertLines ==
    {PyInt(0 - 1), PyInt(0), PyInt(1), PyInt(2), PyInt(3), PyInt(9), PyStr(<<"1">>), PyNone,
     PyAbsent}

InsertTexts == {PyStr(<<"x">>), PyStr(<<"x", NL>>), PyStr(<<>>), PyNone}


InitTool ==
    /\ path = PyAbsent
    /\ allowed_roots = << <<SLASH, "a">> >>
    /\ context_files = <<>>
    /\ open_views = <<>>
    /\ resolved = NoCall
    /\ \/ \E content \in FileTexts, p \in ViewPaths, view_range \in ViewRanges :
            /\ files = ToolFiles(content)
            /\ input_params = ViewInput(p, view_range).v
            /\ io \in {"ok", "read_oserror"}
       \/ \E p \in CreatePaths, file_text \in FileTextArgs :
            /\ files = ToolFiles(<<"a">>)
            /\ input_params = CreateInput(p, file_text)
            /\ io \in {"ok", "mkdir_oserror", "write_oserror"}
       \/ \E content \in FileTexts, p \in {PyStr(<<"a">>), PyStr(<<"b">>)},
             insert_line \in InsertLines, insert_text \in InsertTexts :
            /\ files = ToolFiles(content)
            /\ input_params = InsertInput(p, insert_line, insert_text)
            /\ io \in {"ok", "read_oserror", "write_oserror"}
    /\ tool_result = NoResult
    /\ loop_pc = "idle"
    /\ \E m \in MaxCharacters :
            config = [api_key |-> FALSE, text_editor_tool |-> TRUE, has_view |-> FALSE,
                      max_characters |-> m]
    /\ messages = <<>>
    /\ current_messages = <<>>
    /\ requests = 0
    /\ blocks_seen = 0
    /\ sink = <<>>
    /\ session_stats = Stats(0, 0, 0, 0)
    /\ stats_writes = 0
    /\ last_response = <<>>
    /\ request_messages = <<>>
    /\ StreamIdle

ToolEnv == <<path, allowed_roots, context_files, open_views, resolved, input_params, io,
             loopVars, streamVars, callVars>>

\* one call of execute_view, as run_text_editor_tool makes it
ViewCall ==
    /\ tool_result.content = "NoResult"
    /\ input_params.command = PyStr(<<"view">>)
    /\ LET out == execute_view(Get(input_params, "path", PyStr(<<>>)),
                               Get(input_params, "view_range", PyNone),
                               config.max_characters,
                               allowed_roots, context_files, open_views, files, io)
       IN  /\ tool_result' = out
           /\ files' = out.files
    /\ UNCHANGED ToolEnv

\* one call of execute_create, as run_text_editor_tool makes it
CreateCall ==
    /\ tool_result.content = "NoResult"
    /\ input_params.command = PyStr(<<"create">>)
    /\ LET out == execute_create(Get(input_params, "path", PyStr(<<>>)),
                                 Get(input_params, "file_text", PyStr(<<>>)),
                                 allowed_roots, context_files, open_views, files, io)
       IN  /\ tool_result' = out
           /\ files' = out.files
    /\ UNCHANGED ToolEnv

\* one call of execute_insert, as run_text_editor_tool makes it
InsertCall ==
    /\ tool_result.content = "NoResult"
    /\ input_params.command = PyStr(<<"insert">>)
    /\ LET out == execute_insert(Get(input_params, "path", PyStr(<<>>)),
                                 Get(input_params, "insert_line", PyInt(0)),
                                 Get(input_params, "insert_text", PyStr(<<>>)),
                                 allowed_roots, context_files, open_views, files, io)
       IN  /\ tool_result' = out
           /\ files' = out.files
    /\ UNCHANGED ToolEnv

NextTool == ViewCall \/ CreateCall \/ InsertCall

SpecTool == InitTool /\ [][NextTool]_vars

\* the places of the file where a line ends: a '\n', or a '\r' that no '\n' follows
LineEnds(data) ==
    {i \in 1..Len(data) :
        \/ data[i] = NL
        \/ data[i] = CR /\ ~(i < Len(data) /\ data[i + 1] = NL)}

\* the number of lines of the file: the ended lines and an unended last line
LineCount(data) ==
    Cardinality(LineEnds(data))
        + (IF Len(data) > 0 /\ Len(data) \notin LineEnds(data) THEN 1 ELSE 0)

\* the place where line k ends; 0 for k = 0, the end of the file for an unended line
LineEnd(data, k) ==
    IF k = 0 THEN 0
    ELSE IF k > Cardinality(LineEnds(data)) THEN Len(data)
    ELSE CHOOSE i \in LineEnds(data) :
            Cardinality({j \in LineEnds(data) : j <= i}) = k

\* line k of the file without its line end
LineText(data, k) ==
    SelectSeq(SubSeq(data, LineEnd(data, k - 1) + 1, LineEnd(data, k)),
              LAMBDA c : c \notin {NL, CR})

RECURSIVE NumberedLines(_, _, _)
\* the lines lo..hi of the file, each behind its own number, one per line
NumberedLines(data, lo, hi) ==
    IF lo > hi THEN <<>>
    ELSE IntToStr(lo) \o <<":", SPACE>> \o LineText(data, lo)
            \o (IF lo < hi THEN <<NL>> \o NumberedLines(data, lo + 1, hi) ELSE <<>>)

\* the text within the character budget of the call
WithinBudget(text) ==
    IF config.max_characters > 0 /\ Len(text) > config.max_characters
    THEN SubSeq(text, 1, config.max_characters) \o TruncatedMark
    ELSE text

\* execute_view is called on the readable file /a/a
ViewOfFile ==
    /\ tool_result.content = "NoResult"
    /\ tool_result'.content # "NoResult"
    /\ input_params.command = PyStr(<<"view">>)
    /\ input_params.path = PyStr(<<"a">>)
    /\ io = "ok"

\* C27: for a file of T lines and a view_range [s, e], execute_view returns exactly
\* the lines max(1, s) through T (for e = -1) or min(T, max(1, e)), each behind its
\* own line number, and an error when the start is past the end or past T; without
\* a range it returns the T lines numbered 1..T; and when a positive character
\* budget is exceeded it returns the first max_characters characters and the
\* truncation marker.
C27_ViewReturnsNumberedRange ==
    [][ViewOfFile =>
        LET data == files[FileAA]
            T == LineCount(data)
            range == input_params.view_range
        IN  /\ range = PyAbsent =>
                /\ ~tool_result'.is_error
                /\ tool_result'.text = WithinBudget(NumberedLines(data, 1, T))
            /\ (range # PyAbsent /\ Len(range.v) = 2) =>
                LET s == IF range.v[1] = PyNone THEN 1 ELSE range.v[1].v[1]
                    e == range.v[2].v[1]
                    lo == IF s > 1 THEN s ELSE 1
                    hi == IF e = 0 - 1 THEN T
                          ELSE IF e < 1 THEN (IF T < 1 THEN T ELSE 1)
                          ELSE IF e > T THEN T ELSE e
                IN  IF lo > hi \/ lo > T
                    THEN tool_result'.is_error
                    ELSE /\ ~tool_result'.is_error
                         /\ tool_result'.text = WithinBudget(NumberedLines(data, lo, hi))
    ]_vars

\* the lines 2 to 3 of a file of three lines, the first one empty, have been
\* returned with their own numbers, cut at the budget of 4 characters
C27_Witness ==
    /\ tool_result.content = "view"
    /\ files[FileAA] = <<NL, "a", NL, "a">>
    /\ input_params.view_range = PyList(<<PyInt(2), PyInt(5)>>)
    /\ config.max_characters = 4
    /\ tool_result.text = <<"2", ":", SPACE, "a">> \o TruncatedMark

\* the step is a call of execute_create
CreateStep ==
    /\ tool_result.content = "NoResult"
    /\ tool_result'.content # "NoResult"
    /\ input_params.command = PyStr(<<"create">>)

\* the path the call resolves
CreateTarget ==
    resolve_path(Get(input_params, "path", PyStr(<<>>)), allowed_roots, context_files,
                 open_views, files)

\* the directories above p, the filesystem root excluded
Above(p) == {SubSeq(p, 1, i - 1) : i \in {k \in 2..Len(p) : p[k] = SLASH}}

\* the filesystem lets the parents and the file be made: the calls of the operating
\* system succeed and no regular file stands where a parent directory has to be
CanBeMade(p) == io = "ok" /\ \A d \in Above(p) : ~isfile(files, d)

\* C25: execute_create returns an error and leaves the target as it is whenever the
\* resolved path exists already, as a file or as a directory; otherwise, where the
\* filesystem allows it, it makes the missing parent directories and writes a file
\* whose content is exactly file_text; it changes no other file, and every file it
\* writes is under an allowed root.
C25_CreateOnlyNewFiles ==
    [][CreateStep =>
        LET r == CreateTarget
            file_text == Get(input_params, "file_text", PyStr(<<>>))
        IN  /\ (r.ok /\ exists(files, r.path)) =>
                (tool_result'.is_error /\ files' = files)
            /\ (r.ok /\ ~exists(files, r.path) /\ CanBeMade(r.path) /\ IsStr(file_text)) =>
                /\ ~tool_result'.is_error
                /\ DOMAIN files' = DOMAIN files \cup {r.path} \cup Above(r.path)
                /\ files'[r.path] = file_text.v
                /\ \A d \in Above(r.path) : files'[d] = DIR
            /\ \A q \in DOMAIN files : files'[q] = files[q]
            /\ \A q \in DOMAIN files' \ DOMAIN files :
                    files'[q] # DIR =>
                        \E k \in 1..Len(allowed_roots) : ContainedIn(q, allowed_roots[k])
    ]_vars

\* the file /a/c/c has been written with its text and the directory /a/c made for it
C25_Witness ==
    /\ tool_result.content = "Successfully created file."
    /\ input_params.path = PyStr(<<"c", SLASH, "c">>)
    /\ files[<<SLASH, "a", SLASH, "c">>] = DIR
    /\ files[<<SLASH, "a", SLASH, "c", SLASH, "c">>] = <<"a", NL>>

\* execute_insert is called on the readable and writable file /a/a with a line
\* number and a text
InsertIntoFile ==
    /\ tool_result.content = "NoResult"
    /\ tool_result'.content # "NoResult"
    /\ input_params.command = PyStr(<<"insert">>)
    /\ input_params.path = PyStr(<<"a">>)
    /\ io = "ok"
    /\ IsInt(input_params.insert_line)
    /\ IsStr(input_params.insert_text)

\* the content with the text put in behind its first cut characters, followed by the
\* newline or not
InsertedAt(data, cut, text, newline) ==
    SubSeq(data, 1, cut) \o text \o newline \o SubSeq(data, cut + 1, Len(data))

\* C26: for every file content, line number n and text, execute_insert puts the text
\* before all the original content when n <= 0 and behind the original line
\* min(n, number of lines) otherwise, and the original content stays around it:
\* the new content is the original content with the text, and at most one newline
\* behind the text, put in at that place.
C26_InsertKeepsContent ==
    [][InsertIntoFile =>
        LET data == files[FileAA]
            n == input_params.insert_line.v[1]
            T == LineCount(data)
            cut == LineEnd(data, IF n <= 0 THEN 0 ELSE IF n > T THEN T ELSE n)
            text == input_params.insert_text.v
        IN  /\ ~tool_result'.is_error
            /\ \/ files'[FileAA] = InsertedAt(data, cut, text, <<>>)
               \/ files'[FileAA] = InsertedAt(data, cut, text, <<NL>>)
    ]_vars

(***************************************************************************)
(* The credential of a request: src/utils.py (claudette_get_api_key,       *)
(* claudette_get_oauth_access_token, claudette_get_auth_header) and the    *)
(* headers the three request builders of src/api/api.py put on a request.  *)
(***************************************************************************)
AUTH_MODE_API_KEY == "api_key"
AUTH_MODE_OAUTH == "oauth"
ANTHROPIC_VERSION == <<"2023-06-01">>

\* a header of a request: its name and its value
Header(name, value) == [name |-> name, value |-> value]

\* the (None, None) claudette_get_auth_header returns
NoHeader == Header("None", <<>>)

\* {'keys': [{'key': ...}, ...], 'active_key': n}: each entry is given by its 'key'
KeyDict(keys, active_key) == [t |-> "dict", v |-> [keys |-> keys, active_key |-> active_key]]

\* the for loop of claudette_get_api_key: the first entry with a key
RECURSIVE FirstValidKey(_)
FirstValidKey(keys) ==
    IF keys = <<>> THEN <<>>
    ELSE IF Head(keys) # <<>> THEN Head(keys)
    ELSE FirstValidKey(Tail(keys))

\* claudette_get_api_key_value(): the 'key' of claudette_get_api_key(), '' without one
claudette_get_api_key_value(api_key) ==
    IF IsStr(api_key) /\ Strip(api_key.v) # <<>> THEN api_key.v
    ELSE IF api_key.t = "dict" /\ api_key.v.keys # <<>>
    THEN LET keys == api_key.v.keys
             current_index == api_key.v.active_key
         IN  IF 0 <= current_index /\ current_index < Len(keys)
                /\ keys[current_index + 1] # <<>>
             THEN keys[current_index + 1]
             ELSE FirstValidKey(keys)
    ELSE <<>>

\* claudette_get_oauth_access_token(): the environment variable, stripped, before the
\* accessToken of the credentials file (file_token, None when there is none to be had)
claudette_get_oauth_access_token(env_token, file_token) ==
    IF IsStr(env_token) /\ Strip(env_token.v) # <<>> THEN PyStr(Strip(env_token.v))
    ELSE file_token

\* 'Bearer {0}'.format(access_token)
Bearer(access_token) == <<"B", "e", "a", "r", "e", "r", SPACE>> \o access_token

\* claudette_get_auth_header()
claudette_get_auth_header(a) ==
    IF a.auth_mode = AUTH_MODE_OAUTH
    THEN LET access_token == claudette_get_oauth_access_token(a.env_token, a.file_token)
         IN  IF IsStr(access_token) /\ access_token.v # <<>>
             THEN Header("Authorization", Bearer(access_token.v))
             ELSE NoHeader
    ELSE LET api_key == claudette_get_api_key_value(a.api_key)
         IN  IF api_key # <<>> THEN Header("x-api-key", api_key) ELSE NoHeader

\* claudette_validate_oauth_setup()[0]
claudette_validate_oauth_setup(a) ==
    \/ IsStr(a.env_token) /\ Strip(a.env_token.v) # <<>>
    \/ IsStr(a.file_token) /\ a.file_token.v # <<>>

\* the requests the model lets one object send
MaxOutbound == 2

\* the values of the 'api_key' setting
ApiKeySettings ==
    {PyNone, PyStr(<<>>), PyStr(<<SPACE>>), PyStr(<<"k">>),
     KeyDict(<<<<"w">>, <<"p">>>>, 1), KeyDict(<<<<>>, <<"p">>>>, 0),
     KeyDict(<<<<>>>>, 0)}

\* os.environ.get('CLAUDE_CODE_OAUTH_TOKEN')
EnvTokens == {PyNone, PyStr(<<SPACE>>), PyStr(<<"t", SPACE>>)}

\* the accessToken that reading (and refreshing) the credentials file gives
FileTokens == {PyNone, PyStr(<<"f">>)}

InitAuth ==
    /\ path = PyAbsent
    /\ allowed_roots = <<>>
    /\ context_files = <<>>
    /\ open_views = <<>>
    /\ files = <<>>
    /\ resolved = NoCall
    /\ input_params = NoInput
    /\ io = "ok"
    /\ tool_result = NoResult
    /\ loop_pc = "idle"
    /\ config = [api_key |-> FALSE, text_editor_tool |-> FALSE, has_view |-> FALSE]
    /\ messages = <<>>
    /\ current_messages = <<>>
    /\ requests = 0
    /\ blocks_seen = 0
    /\ sink = <<>>
    /\ session_stats = Stats(0, 0, 0, 0)
    /\ stats_writes = 0
    /\ last_response = <<>>
    /\ request_messages = <<>>
    /\ handler = NewHandler
    /\ calls = 0
    /\ stream = <<>>
    /\ questions = <<>>
    /\ cost_call = <<>>
    /\ \E m \in {AUTH_MODE_API_KEY, AUTH_MODE_OAUTH}, k \in ApiKeySettings,
          e \in EnvTokens, f \in FileTokens :
            auth = [auth_mode |-> m, api_key |-> k, env_token |-> e, file_token |-> f]
    /\ api = <<>>
    /\ outbound = <<>>
    /\ turns = <<>>

AuthRest == <<pathVars, editVars, loopVars, streamVars, cost_call, turns>>

\* ClaudetteClaudeAPI(): self.api_key = claudette_get_api_key_value()
ApiInit ==
    /\ auth # <<>>
    /\ api' = [api_key |-> claudette_get_api_key_value(auth.api_key), last |-> "built"]
    /\ UNCHANGED <<auth, outbound, AuthRest>>

\* on_select(index) of the auth mode panel
SelectAuthMode ==
    /\ auth # <<>>
    /\ \E index \in {0, 1} :
        /\ auth' =
            IF index = 0
            THEN IF claudette_get_api_key_value(auth.api_key) = <<>> THEN auth
                 ELSE [auth EXCEPT !.auth_mode = AUTH_MODE_API_KEY]
            ELSE IF ~claudette_validate_oauth_setup(auth) THEN auth
                 ELSE [auth EXCEPT !.auth_mode = AUTH_MODE_OAUTH]
        /\ auth' # auth
    /\ UNCHANGED <<api, outbound, AuthRest>>

\* what a request builder does with the headers it has made: nothing without
\* self.api_key, a request with these headers otherwise
SendRequest(op, method, headers) ==
    /\ auth # <<>>
    /\ api # <<>>
    /\ Len(outbound) < MaxOutbound
    /\ IF api.api_key = <<>>
       THEN /\ api' = [api EXCEPT !.last = "no_key"]
            /\ outbound' = outbound
       ELSE /\ api' = [api EXCEPT !.last = "sent"]
            /\ outbound' = Append(outbound,
                    [op |-> op, method |-> method, headers |-> headers])
    /\ UNCHANGED <<auth, AuthRest>>

\* stream_response: the headers of the streaming request to 'messages'
StreamRequest ==
    SendRequest("stream_response", "POST",
        {Header("x-api-key", api.api_key),
         Header("anthropic-version", ANTHROPIC_VERSION),
         Header("content-type", <<"application/json">>)})

\* run_with_text_editor_loop -> _request_non_streaming: the headers of each request
LoopRequest ==
    SendRequest("_request_non_streaming", "POST",
        {Header("x-api-key", api.api_key),
         Header("anthropic-version", ANTHROPIC_VERSION),
         Header("content-type", <<"application/json">>)})

\* fetch_models: the headers of the request to 'models'
FetchModels ==
    SendRequest("fetch_models", "GET",
        {Header("x-api-key", api.api_key),
         Header("anthropic-version", ANTHROPIC_VERSION)})

NextAuth == ApiInit \/ SelectAuthMode \/ StreamRequest \/ LoopRequest \/ FetchModels

SpecAuth == InitAuth /\ [][NextAuth]_vars

\* the credential headers a request carries
CredentialHeaders(request) ==
    {h \in request.headers : h.name \in {"x-api-key", "Authorization"}}

\* C28: every request that is sent carries exactly one credential header, the one
\* the auth mode chooses: x-api-key with the API key in api_key mode,
\* Authorization: Bearer <token> in oauth mode, never both; and no request is sent
\* when claudette_get_auth_header() gives (None, None).
C28_OneCredentialByAuthMode ==
    [][(auth # <<>> /\ outbound' # outbound) =>
        /\ claudette_get_auth_header(auth) # NoHeader
        /\ CredentialHeaders(outbound'[Len(outbound')])
                = {claudette_get_auth_header(auth)}
    ]_vars

(***************************************************************************)
(* Termination of the tool loop                                            *)
(***************************************************************************)
\* The worker thread of the loop keeps running, and every request it sends is
\* answered or fails: a step of the loop that can be taken is taken.
SpecLoopFair == SpecLoop /\ WF_vars(NextLoop)

\* the step sends a request
LoopSends == loop_pc = "requesting" /\ requests' = requests + 1

\* the request of the step was answered with a response (it did not fail)
LoopAnswered == last_response' # <<>> /\ last_response'.request = requests'

\* the response of the step asks for tools
AnsweredToolUse ==
    /\ LoopAnswered
    /\ EffectiveStopReason(last_response'.stop_reason, last_response'.content) = "tool_use"

\* the function has returned and its terminal event is scheduled
LoopTerminated ==
    /\ loop_pc = "done"
    /\ sink # <<>>
    /\ sink[Len(sink)].is_done

\* C29: the loop bounds the number of tool_use turns nowhere: a request ends the
\* loop exactly when it fails or is answered with a stop reason other than
\* tool_use, at every request count; so the loop, once it sends requests, ends
\* with a terminal event unless the answers keep asking for tools, for as long
\* as the model lets them, and it ends in no other way.
C29_LoopEndsOnlyByStopOrFailure ==
    /\ [][LoopSends => (loop_pc' = "done" <=> ~AnsweredToolUse)]_vars
    /\ (loop_pc = "requesting") ~> (LoopTerminated \/ requests = MaxRequests)

(***************************************************************************)
(* The turns of one chat view.  send_to_claude starts one worker thread    *)
(* per question; each runs stream_response, whose message_stop branch      *)
(* reads claudette_session_stats, adds its usage and writes it back.       *)
(***************************************************************************)
MaxTurns == 2

\* the stats of the chat view before the turns
InitialStats == Stats(7, 5, 9, 0)

\* what a turn has counted when message_stop arrives
TurnUsages ==
    {[input_tokens |-> 1000, output_tokens |-> 500, web_search_requests |-> 0],
     [input_tokens |-> 200, output_tokens |-> 0, web_search_requests |-> 1],
     [input_tokens |-> 500, output_tokens |-> 200, web_search_requests |-> 2],
     [input_tokens |-> 0, output_tokens |-> 0, web_search_requests |-> 0]}

\* current_cost of the message_stop branch: calculate_cost plus the web searches
TurnCost(usage) ==
    calculate_cost(usage.input_tokens, usage.output_tokens, 0, 0, ModelName, PricingTable)
        + usage.web_search_requests * 10

\* a worker thread of the chat view: where it is, its counts, its copy of the stats
Turn(pc, usage, local) == [pc |-> pc, usage |-> usage, local |-> local]

InitTurns ==
    /\ path = PyAbsent
    /\ allowed_roots = <<>>
    /\ context_files = <<>>
    /\ open_views = <<>>
    /\ files = <<>>
    /\ resolved = NoCall
    /\ input_params = NoInput
    /\ io = "ok"
    /\ tool_result = NoResult
    /\ loop_pc = "idle"
    /\ config = [api_key |-> TRUE, text_editor_tool |-> FALSE, has_view |-> TRUE]
    /\ messages = <<>>
    /\ current_messages = <<>>
    /\ requests = 0
    /\ blocks_seen = 0
    /\ sink = <<>>
    /\ session_stats = InitialStats
    /\ stats_writes = 0
    /\ last_response = <<>>
    /\ request_messages = <<>>
    /\ handler = NewHandler
    /\ calls = 0
    /\ stream = <<>>
    /\ questions = <<>>
    /\ cost_call = <<>>
    /\ auth = <<>>
    /\ api = <<>>
    /\ outbound = <<>>
    /\ turns = <<>>

TurnsRest == <<pathVars, editVars, loop_pc, config, messages, current_messages, requests,
               blocks_seen, sink, last_response, request_messages, streamVars,
               cost_call, auth, api, outbound>>

\* the turns that were started
Started == 1..Len(turns)

\* send_to_claude: thread.start() of a worker that runs stream_response
TurnStarts ==
    /\ Len(turns) < MaxTurns
    /\ \E u \in TurnUsages : turns' = Append(turns, Turn("streaming", u, <<>>))
    /\ UNCHANGED <<session_stats, stats_writes, TurnsRest>>

\* message_stop arrives: session_stats = settings.get('claudette_session_stats', ...)
TurnReadsStats ==
    /\ \E i \in Started :
        /\ turns[i].pc = "streaming"
        /\ turns' = [turns EXCEPT ![i] = Turn("read", @.usage, session_stats)]
    /\ UNCHANGED <<session_stats, stats_writes, TurnsRest>>

\* the four += and settings.set('claudette_session_stats', session_stats)
TurnWritesStats ==
    /\ \E i \in Started :
        /\ turns[i].pc = "read"
        /\ LET t == turns[i]
               updated == Stats(t.local.input_tokens + t.usage.input_tokens,
                                t.local.output_tokens + t.usage.output_tokens,
                                t.local.cost + TurnCost(t.usage),
                                t.local.web_search_requests + t.usage.web_search_requests)
           IN  /\ session_stats' = updated
               /\ turns' = [turns EXCEPT ![i] = Turn("done", t.usage, updated)]
        /\ stats_writes' = stats_writes + 1
    /\ UNCHANGED TurnsRest

NextTurns == TurnStarts \/ TurnReadsStats \/ TurnWritesStats

SpecTurns == InitTurns /\ [][NextTurns]_vars

RECURSIVE SumOfTurns(_, _)
\* the stats after adding the counts and the cost of each of the turns to them
SumOfTurns(stats, ts) ==
    IF ts = <<>> THEN stats
    ELSE SumOfTurns(Stats(stats.input_tokens + Head(ts).usage.input_tokens,
                          stats.output_tokens + Head(ts).usage.output_tokens,
                          stats.cost + TurnCost(Head(ts).usage),
                          stats.web_search_requests + Head(ts).usage.web_search_requests),
                    Tail(ts))

\* every started turn has handled its message_stop
AllTurnsStopped ==
    /\ turns # <<>>
    /\ \A i \in Started : turns[i].pc = "done"

\* C30: whatever the interleaving of the turns of a chat view, once each has
\* handled its message_stop the session stats are the initial stats plus the
\* input tokens, output tokens, web searches and cost of every turn: no update
\* is lost and none is counted twice.
C30_NoStatsUpdateLost ==
    AllTurnsStopped => session_stats = SumOfTurns(InitialStats, turns)

(***************************************************************************)
(* Properties of the handler's thinking and redacted blocks                *)
(***************************************************************************)
\* the call carries a thinking signature
IsSignatureCall(c) == c.thinking_signature # PyNone

\* the call is a thinking chunk that the handler, in state h, takes into the open block
IsAcceptedThinking(h, c) ==
    /\ ~IsSignatureCall(c)
    /\ c.thinking_event = ""
    /\ ~(c.redacted_data # PyNone /\ h.in_redacted_block)
    /\ c.is_thinking
    /\ h.in_thinking_block
    /\ c.chunk # <<>>

ThinkingBlock(thinking, signature) ==
    [type |-> "thinking", thinking |-> thinking, signature |-> signature, data |-> <<>>]

\* C31: a call of append_chunk that carries a thinking signature commits exactly
\* one thinking block, whose text is what the accepted thinking chunks have put in
\* the buffer since the last commit, in order, then empties the buffer and closes
\* the block; no other call changes the buffer except an accepted thinking chunk,
\* which appends to it; get_thinking_blocks returns the blocks in commit order.
C31_SignatureCommitsThinkingBlock ==
    [][\A c \in HandlerCalls :
        (~handler.deleted /\ calls' = calls + 1 /\ handler' = append_chunk(handler, c)) =>
            /\ IsSignatureCall(c) =>
                /\ handler'.thinking_blocks =
                        Append(handler.thinking_blocks,
                               ThinkingBlock(handler.current_thinking_text,
                                             c.thinking_signature.v))
                /\ handler'.current_thinking_text = <<>>
                /\ ~handler'.in_thinking_block
            /\ IsAcceptedThinking(handler, c) =>
                /\ handler'.current_thinking_text = handler.current_thinking_text \o c.chunk
                /\ handler'.thinking_blocks = handler.thinking_blocks
            /\ (~IsSignatureCall(c) /\ ~IsAcceptedThinking(handler, c)) =>
                /\ handler'.current_thinking_text = handler.current_thinking_text
                /\ \A i \in 1..Len(handler'.thinking_blocks) :
                        handler'.thinking_blocks[i].type = "thinking"
                            => /\ i <= Len(handler.thinking_blocks)
                               /\ handler.thinking_blocks[i] = handler'.thinking_blocks[i]
            /\ get_thinking_blocks(handler') = handler'.thinking_blocks
            /\ SubSeq(handler'.thinking_blocks, 1, Len(handler.thinking_blocks))
                    = handler.thinking_blocks
    ]_vars

\* two thinking chunks were accepted and then committed as one block
C31_Witness ==
    /\ calls = 4
    /\ handler.thinking_blocks = <<ThinkingBlock(<<"a", "a">>, <<"s">>)>>
    /\ handler.current_thinking_text = <<>>
    /\ ~handler.in_thinking_block

\* the call is redacted data that the handler, in state h, takes into the open block
IsAcceptedRedacted(h, c) ==
    /\ ~IsSignatureCall(c)
    /\ c.thinking_event = ""
    /\ c.redacted_data # PyNone
    /\ h.in_redacted_block

RedactedBlock(data) ==
    [type |-> "redacted_thinking", thinking |-> <<>>, signature |-> <<>>, data |-> data]

\* the characters of the redacted data of the calls
RedactedChars ==
    UNION {{c.redacted_data.v[i] : i \in 1..Len(c.redacted_data.v)} :
                c \in {k \in HandlerCalls : k.redacted_data # PyNone}}

\* what one append_chunk call does to the redacted buffer and to the blocks
RedactedStep ==
    \A c \in HandlerCalls :
        (~handler.deleted /\ calls' = calls + 1 /\ handler' = append_chunk(handler, c)) =>
            /\ (~IsSignatureCall(c) /\ c.thinking_event = "start_redacted") =>
                /\ handler'.current_redacted_data = <<>>
                /\ handler'.in_redacted_block
                /\ handler'.thinking_blocks = handler.thinking_blocks
            /\ IsAcceptedRedacted(handler, c) =>
                /\ handler'.current_redacted_data
                        = handler.current_redacted_data \o c.redacted_data.v
                /\ handler'.view = handler.view
                /\ handler'.current_response = handler.current_response
                /\ handler'.thinking_blocks = handler.thinking_blocks
            /\ (~IsSignatureCall(c) /\ c.thinking_event = "end_redacted") =>
                /\ handler'.thinking_blocks =
                        IF handler.current_redacted_data = <<>>
                        THEN handler.thinking_blocks
                        ELSE Append(handler.thinking_blocks,
                                    RedactedBlock(handler.current_redacted_data))
                /\ handler'.current_redacted_data = <<>>
                /\ ~handler'.in_redacted_block
            /\ (\/ IsSignatureCall(c)
                \/ /\ c.thinking_event \notin {"start_redacted", "end_redacted"}
                   /\ ~IsAcceptedRedacted(handler, c)) =>
                /\ handler'.current_redacted_data = handler.current_redacted_data
                /\ handler'.in_redacted_block = handler.in_redacted_block
                /\ \A i \in 1..Len(handler'.thinking_blocks) :
                        handler'.thinking_blocks[i].type = "redacted_thinking"
                            => /\ i <= Len(handler.thinking_blocks)
                               /\ handler.thinking_blocks[i] = handler'.thinking_blocks[i]

\* C32: 'start_redacted' opens a block with an empty buffer; redacted data that
\* arrives while the block is open is appended to the buffer, in order, and leaves
\* the view and current_response as they are; 'end_redacted' commits the buffer as
\* exactly one redacted_thinking block, or as none when it is empty, empties the
\* buffer and closes the block; no other call changes the buffer, and no redacted
\* data is ever in the view or in current_response.
C32_RedactedDataCommittedAtEnd ==
    /\ [](\A i \in 1..Len(handler.view) : handler.view[i] \notin RedactedChars)
    /\ [](\A i \in 1..Len(handler.current_response) :
                handler.current_response[i] \notin RedactedChars)
    /\ [][RedactedStep]_vars

\* two chunks of redacted data were received in an open block and committed as one
\* block at 'end_redacted'
C32_Witness ==
    /\ calls = 4
    /\ handler.thinking_blocks = <<RedactedBlock(<<"d", "d">>)>>
    /\ handler.current_redacted_data = <<>>
    /\ ~handler.in_redacted_block
    /\ handler.current_response = <<>>

(***************************************************************************)
(* Properties of resolve_path: hints and root rules                        *)
(***************************************************************************)
\* the path is a bare filename: it names no directory
IsBareName(normalized) == \A i \in 1..Len(normalized) : normalized[i] # SLASH

\* the root rules alone: the first root of the list that contains the path, which
\* is joined to the root when it is relative
RootRules(normalized, roots) ==
    LET holds == {i \in 1..Len(roots) :
                    ContainedIn(Under(normalized, roots[i]), roots[i])}
    IN  IF holds = {} THEN RootErr(ErrOutside)
        ELSE LET first == CHOOSE i \in holds : \A j \in holds : i <= j
             IN  RootOk(Under(normalized, roots[first]))

\* the hints whose basename is the name asked for: context files that exist and the
\* files of the open views
MatchingHints(normalized) ==
    {context_files[i].absolute_path : i \in
        {k \in 1..Len(context_files) :
            /\ basename(context_files[k].rel_path) = basename(normalized)
            /\ isfile(files, context_files[k].absolute_path)}}
    \cup {open_views[i] : i \in
        {k \in 1..Len(open_views) : basename(open_views[k]) = basename(normalized)}}

\* C33: for a path that passes the validity and traversal checks, the context files
\* and the open views are consulted only when the path is a bare filename; a
\* matching hint is returned only if it is under an allowed root; in every other
\* case the result is that of the root rules: the path, joined to the root when
\* it is relative, under the first root of the list that contains it.
C33_HintsOnlyForBareNames ==
    (resolved # NoCall /\ resolved.err \notin {ErrInvalidPath, ErrTraversal}) =>
        LET normalized == normpath(Strip(path.v))
            rules == RootRules(normalized, allowed_roots)
            hints == {h \in MatchingHints(normalized) :
                        \E i \in 1..Len(allowed_roots) : ContainedIn(h, allowed_roots[i])}
        IN  /\ (~IsBareName(normalized) \/ hints = {}) => resolved = rules
            /\ resolved # rules => (resolved.ok /\ resolved.path \in hints)

\* a context file with the name asked for lies outside the only root, and the
\* bare name is resolved by the root rules
C33_Witness ==
    /\ path = PyStr(<<"b">>)
    /\ context_files = <<CtxEntry(FileBB)>>
    /\ open_views = <<FileBB, FileAA>>
    /\ allowed_roots = << <<SLASH, "a">> >>
    /\ resolved = RootOk(<<SLASH, "a", SLASH, "b">>)

(***************************************************************************)
(* Accounting of a streamed turn                                           *)
(***************************************************************************)
RECURSIVE LastUsage(_, _)
\* the usage of the last frame of that type that carries one, zeros without one
LastUsage(frames, type) ==
    IF frames = <<>> THEN NoUsage
    ELSE LET f == frames[Len(frames)]
         IN  IF f.line = "data" /\ f.type = type /\ f.usage.present THEN f.usage
             ELSE LastUsage(SubSeq(frames, 1, Len(frames) - 1), type)

\* the step reads a frame of that type
Reads(type) == FrameRead /\ ReadFrame.line = "data" /\ ReadFrame.type = type

\* C34: a message_start or message_delta frame schedules no chunk_callback call
\* and leaves the session stats alone, and at message_stop the session update and
\* the turn cost use the input-token, cache-read and cache-write counts of the
\* last message_start and the output-token count of the last message_delta.
C34_AccountingFromStartAndDelta ==
    [][/\ (Reads("message_start") \/ Reads("message_delta")) =>
            /\ sink' = sink
            /\ UNCHANGED <<session_stats, stats_writes>>
       /\ (Reads("message_stop") /\ config.has_view) =>
            LET start == LastUsage(stream.frames, "message_start")
                delta == LastUsage(stream.frames, "message_delta")
                searches == StopUsage(ReadFrame).web_search_requests
            IN  /\ session_stats'.input_tokens
                        = session_stats.input_tokens + start.input_tokens
                /\ session_stats'.output_tokens
                        = session_stats.output_tokens + delta.output_tokens
                /\ session_stats'.cost
                        = session_stats.cost
                            + calculate_cost(start.input_tokens, delta.output_tokens,
                                             start.cache_read, start.cache_write,
                                             ModelName, PricingTable)
                            + 10 * searches
      ]_vars

(***************************************************************************)
(* Errors of the streaming request                                         *)
(***************************************************************************)
\* the request of the step failed: an HTTP error status, or no response at all
StreamRequestFailed ==
    /\ stream # <<>>
    /\ stream.pc = "open"
    /\ requests' = requests + 1
    /\ stream'.statuses[Len(stream'.statuses)].code # 200

\* the structured 404 that names a model
IsModelNotFound(e) ==
    e.code = 404 /\ e.type = "not_found_error" /\ StartsWith(e.message, <<"model:">>)

\* C35: every request of stream_response that fails, with any HTTP status or
\* without a response, ends the turn and schedules exactly one terminal error
\* event for the sink (chunk_callback with is_done=True), the model-not-found
\* 404 with a text of its own; and no request follows.
C35_FailuresReportedOnceToSink ==
    [][/\ StreamRequestFailed =>
            LET e == stream'.statuses[Len(stream'.statuses)]
            IN  /\ stream'.pc = "done"
                /\ Len(sink') = Len(sink) + 1
                /\ SubSeq(sink', 1, Len(sink)) = sink
                /\ sink'[Len(sink')].is_done
                /\ sink'[Len(sink')] # DoneChunk
                /\ IsModelNotFound(e) <=> sink'[Len(sink')].kind = "model does not exist"
       /\ (stream # <<>> /\ stream.pc = "done") => requests' = requests
      ]_vars

(***************************************************************************)
(* Accounting of the tool loop                                             *)
(***************************************************************************)
\* the session stats of the chat view before the loop
LoopInitialStats == Stats(7, 5, 9, 0)

\* the usage every tool_use response of the model reports
ToolTurnUsage == CHOOSE u \in OtherUsage : TRUE

\* the cost calculate_cost gives for the usage of one response
UsageCost(u) ==
    calculate_cost(u.input_tokens, u.output_tokens, 0, 0, ModelName, PricingTable)

\* the loop has returned from its end_turn branch after n tool_use turns
EndedAfterToolTurns(n) ==
    /\ loop_pc = "done"
    /\ config.has_view
    /\ requests = n + 1
    /\ last_response # <<>>
    /\ last_response.request = requests
    /\ EffectiveStopReason(last_response.stop_reason, last_response.content) = "end_turn"

\* C36: when the loop ends with end_turn after one or more tool_use turns, the
\* session stats of the chat view have grown by the input tokens, the output
\* tokens and the cost of every request of the loop: those of each tool_use
\* response and those of the last response.
C36_LoopCountsEveryRequest ==
    \A n \in 1..MaxRequests :
        EndedAfterToolTurns(n) =>
            /\ session_stats.input_tokens
                    = LoopInitialStats.input_tokens + n * ToolTurnUsage.input_tokens
                        + last_response.usage.input_tokens
            /\ session_stats.output_tokens
                    = LoopInitialStats.output_tokens + n * ToolTurnUsage.output_tokens
                        + last_response.usage.output_tokens
            /\ session_stats.cost
                    = LoopInitialStats.cost + n * UsageCost(ToolTurnUsage)
                        + UsageCost(last_response.usage)

(***************************************************************************)
(* Completion of a turn                                                    *)
(***************************************************************************)
\* C37: whatever the stream brings (a Done after message_stop, an error after a
\* Done was scheduled, message_stop more than once) and when the handler is
\* collected, the on_complete callback of the handler has run at most once.
C37_OnCompleteAtMostOnce == handler.completions <= 1

(***************************************************************************)
(* execute_create: what an error leaves behind                             *)
(***************************************************************************)
\* C38: whenever execute_create returns is_error=True the filesystem is as it was
\* before the call, no file written and no directory made; and a path resolve_path
\* accepted is under a root for ensure_under_root too, so that the test made after
\* the parent directories exist never rejects it.
C38_CreateErrorLeavesNoTrace ==
    [][CreateStep =>
        /\ tool_result'.is_error => files' = files
        /\ CreateTarget.ok => ensure_under_root(CreateTarget.path, allowed_roots)
    ]_vars

(***************************************************************************)
(* Names that begin with two dots                                          *)
(***************************************************************************)
\* C39: resolve_path returns the traversal error only for a path whose normalized
\* form has a segment '..'; a name that merely begins with two dots, under a
\* root, is resolved.
C39_TraversalErrorOnlyForDotDotSegment ==
    (IsStr(path) /\ resolved = RootErr(ErrTraversal)) =>
        HasDotDot(normpath(Strip(path.v)))

(***************************************************************************)
(* The sign of a cost                                                      *)
(***************************************************************************)
\* C40: for token counts that are not negative and tier rates that are not
\* negative calculate_cost returns an amount that is not negative, so that the
\* cost of a session never goes down from one completed turn to the next.
C40_CostIsNeverNegative ==
    (cost_call # <<>> /\ cost_call.returned) => cost_call.cost >= 0

====
